---- MODULE Spec2Model ----
(***************************************************************************)
(* Model of the ai-memory archive engine (src/commands/archive.js) and of  *)
(* the file utilities it uses (src/utils/files.js).                        *)
(*                                                                         *)
(* Text is a sequence of characters.  A character is a one-element string; *)
(* an ISO calendar date ("2020-01-01") and the words of a status marker    *)
(* ("Status:", "COMPLETED", ...) are single tokens of the sequence, since  *)
(* no operation of the program looks inside them other than the regular    *)
(* expressions modelled below.  NL is the newline character.               *)
(*                                                                         *)
(* Time is counted in ticks since 2020-01-01T00:00:00Z; a day has          *)
(* TicksPerDay ticks, so a clock reading is either exactly midnight or a   *)
(* later time of the same day.                                             *)
(***************************************************************************)
EXTENDS Integers, Sequences, FiniteSets, Bags, TLC

\* ------------------------------------------------------------------ bounds
MaxLines == 3
MaxNow == 5
MaxFaults == 1
MaxRuns == 2
MaxRootLen == 3
MaxRelLen == 5
MaxContentLen == 2
MaxChain == 6
MaxCalls == 3
TicksPerDay == 2

\* ------------------------------------------------------- program constants
DEFAULT_RETENTION_DAYS == 14
MAX_TRAVERSAL_DEPTH == 5

\* -------------------------------------------------------------------- text
NL == "\n"
SP == " "

Str0 == <<>>

IsSpace(c) == c \in {SP, NL}

RECURSIVE SplitFrom(_, _, _)
SplitFrom(s, i, cur) ==
  IF i > Len(s) THEN <<cur>>
  ELSE IF s[i] = NL THEN <<cur>> \o SplitFrom(s, i + 1, <<>>)
  ELSE SplitFrom(s, i + 1, Append(cur, s[i]))

\* String.prototype.split('\n')
Split(s) == SplitFrom(s, 1, <<>>)

RECURSIVE Join(_, _)
\* Array.prototype.join(sep)
Join(parts, sep) ==
  IF Len(parts) = 0 THEN <<>>
  ELSE IF Len(parts) = 1 THEN parts[1]
  ELSE parts[1] \o sep \o Join(Tail(parts), sep)

RECURSIVE TrimStart(_)
\* String.prototype.trimStart()
TrimStart(s) ==
  IF Len(s) > 0 /\ IsSpace(s[1]) THEN TrimStart(Tail(s)) ELSE s

RECURSIVE TrimEnd(_)
\* String.prototype.trimEnd()
TrimEnd(s) ==
  IF Len(s) > 0 /\ IsSpace(s[Len(s)]) THEN TrimEnd(SubSeq(s, 1, Len(s) - 1)) ELSE s

\* String.prototype.trim()
Trim(s) == TrimEnd(TrimStart(s))

\* String.prototype.startsWith(prefix)
StartsWith(s, prefix) ==
  Len(s) >= Len(prefix) /\ SubSeq(s, 1, Len(prefix)) = prefix

\* number of '\n'-separated lines: content.split('\n').length
LineCount(s) == Len(Split(s))

SEPARATOR == <<"-", "-", "-">>
HEADING_PREFIX == <<"#", "#", SP>>
BLANK2 == <<NL, NL>>

\* ------------------------------------------------------------------- dates
\* The calendar dates of the model, in order; position k is day k-1.
ValidDates ==
  <<"2020-01-01", "2020-01-02", "2020-01-03", "2020-01-04", "2020-01-05",
    "2020-01-06", "2020-01-07">>

\* A string of the shape \d{4}-\d{2}-\d{2} that is no calendar date.
InvalidDate == "2020-13-01"

DateStrings == {ValidDates[k] : k \in 1..Len(ValidDates)} \cup {InvalidDate}

NoDate == -1

\* new Date(str + 'T00:00:00Z').getTime(), NoDate for NaN
DateParse(str) ==
  IF \E k \in 1..Len(ValidDates) : ValidDates[k] = str
  THEN (CHOOSE k \in 1..Len(ValidDates) : ValidDates[k] = str) * TicksPerDay - TicksPerDay
  ELSE NoDate

\* date.toISOString().slice(0, 10)
IsoDate(t) == ValidDates[(t \div TicksPerDay) + 1]

\* ------------------------------------------------------------- log parsing
RECURSIVE FirstSeparator(_, _)
\* index of the first line whose trim() is '---', 0 if there is none
FirstSeparator(lines, i) ==
  IF i > Len(lines) THEN 0
  ELSE IF Trim(lines[i]) = SEPARATOR THEN i
  ELSE FirstSeparator(lines, i + 1)

\* mutant of MkSection: the heading line is left out of the content
MkSectionNoHeading(lines) ==
  [heading |-> lines[1], content |-> Trim(Join(Tail(lines), <<NL>>))]

\* a section of the parsed log: its heading line and its content, the lines of
\* the section joined and trimmed
MkSection(lines) == [heading |-> lines[1], content |-> Trim(Join(lines, <<NL>>))]

RECURSIVE ScanBodyFromFirstLine(_, _, _, _)
\* mutant of ScanBody: current starts as an empty section, so the lines ahead
\* of the first heading make a section of their own
ScanBodyFromFirstLine(bodyLines, i, sections, cur) ==
  IF i > Len(bodyLines)
  THEN IF Len(cur) > 0 THEN Append(sections, MkSection(cur)) ELSE sections
  ELSE IF StartsWith(bodyLines[i], HEADING_PREFIX)
       THEN ScanBodyFromFirstLine(bodyLines, i + 1,
                     IF Len(cur) > 0 THEN Append(sections, MkSection(cur)) ELSE sections,
                     <<bodyLines[i]>>)
       ELSE ScanBodyFromFirstLine(bodyLines, i + 1, sections, Append(cur, bodyLines[i]))

RECURSIVE ScanBody(_, _, _, _)
\* the section loop of parseLogSections; cur is the line list of the
\* current section, <<>> while there is none
ScanBody(bodyLines, i, sections, cur) ==
  IF i > Len(bodyLines)
  THEN IF Len(cur) > 0 THEN Append(sections, MkSection(cur)) ELSE sections
  ELSE IF StartsWith(bodyLines[i], HEADING_PREFIX)
       THEN ScanBody(bodyLines, i + 1,
                     IF Len(cur) > 0 THEN Append(sections, MkSection(cur)) ELSE sections,
                     <<bodyLines[i]>>)
       ELSE IF Len(cur) > 0
            THEN ScanBody(bodyLines, i + 1, sections, Append(cur, bodyLines[i]))
            ELSE ScanBody(bodyLines, i + 1, sections, cur)

\* mutant of parseLogSections: the lines between the separator and the first
\* heading are taken as padding of the header and stay with it
parseLogSectionsPadded(content) ==
  LET lines == Split(content)
      headerEnd == FirstSeparator(lines, 1)
      bodyLines == IF headerEnd > 0 THEN SubSeq(lines, headerEnd + 1, Len(lines)) ELSE lines
      heads == {k \in (headerEnd + 1)..Len(lines) : StartsWith(lines[k], HEADING_PREFIX)}
      padEnd == IF heads = {} THEN Len(lines)
                ELSE (CHOOSE k \in heads : \A j \in heads : k <= j) - 1
      header == IF headerEnd > 0 THEN Join(SubSeq(lines, 1, padEnd), <<NL>>) ELSE <<>>
  IN [header |-> header, sections |-> ScanBody(bodyLines, 1, <<>>, <<>>)]

parseLogSections(content) ==
  LET lines == Split(content)
      headerEnd == FirstSeparator(lines, 1)
      header == IF headerEnd > 0 THEN Join(SubSeq(lines, 1, headerEnd), <<NL>>) ELSE <<>>
      bodyLines == IF headerEnd > 0 THEN SubSeq(lines, headerEnd + 1, Len(lines)) ELSE lines
  IN [header |-> header, sections |-> ScanBody(bodyLines, 1, <<>>, <<>>)]

RECURSIVE SkipSpaces(_, _)
\* position of the first non-blank character of s at or after i
SkipSpaces(s, i) ==
  IF i <= Len(s) /\ IsSpace(s[i]) THEN SkipSpaces(s, i + 1) ELSE i

\* mutant of parseDateFromHeading: a heading without a date counts as dated
\* 1970-01-01, which stands before every date of the model
parseDateOrEpoch(heading) ==
  IF Len(heading) >= 3 /\ heading[1] = "#" /\ heading[2] = "#" /\ IsSpace(heading[3])
  THEN LET p == SkipSpaces(heading, 3)
       IN IF p <= Len(heading) /\ heading[p] \in DateStrings /\ DateParse(heading[p]) # NoDate
          THEN DateParse(heading[p])
          ELSE 0
  ELSE 0

\* heading.match(/^##\s+(\d{4}-\d{2}-\d{2})/), then new Date(...); NoDate for null
parseDateFromHeading(heading) ==
  IF Len(heading) >= 3 /\ heading[1] = "#" /\ heading[2] = "#" /\ IsSpace(heading[3])
  THEN LET p == SkipSpaces(heading, 3)
       IN IF p <= Len(heading) /\ heading[p] \in DateStrings
          THEN DateParse(heading[p])
          ELSE NoDate
  ELSE NoDate

\* new Date(now.getTime() - retentionDays * 24 * 60 * 60 * 1000)
getCutoffDate(t, retentionDays) == t - retentionDays * TicksPerDay

\* ---------------------------------------------------------- classification
\* mutant of KeepPush: keep.unshift in place of keep.push
KeepUnshift(keep, content) == <<content>> \o keep

KeepPush(keep, content) == Append(keep, content)

RECURSIVE BucketIndex(_, _, _)
\* archiveByDate.has(dateStr): position of the bucket of dateStr, 0 if none.
\* archiveByDate is a sequence of <<dateStr, entries>> in insertion order,
\* the iteration order of a Map.
BucketIndex(archiveByDate, dateStr, i) ==
  IF i > Len(archiveByDate) THEN 0
  ELSE IF archiveByDate[i][1] = dateStr THEN i
  ELSE BucketIndex(archiveByDate, dateStr, i + 1)

BucketPush(archiveByDate, dateStr, content) ==
  LET k == BucketIndex(archiveByDate, dateStr, 1)
  IN IF k = 0
     THEN Append(archiveByDate, <<dateStr, <<content>>>>)
     ELSE [archiveByDate EXCEPT ![k] = <<dateStr, Append(archiveByDate[k][2], content)>>]

\* sectionDate && sectionDate < cutoff
IsExpired(sectionDate, cutoff) == sectionDate # NoDate /\ sectionDate < cutoff

\* mutant of ClassifyStep: the else is missing, an expired section is kept too
ClassifyStepAlsoKeeps(acc, section, cutoff) ==
  LET sectionDate == parseDateFromHeading(section.heading)
  IN IF IsExpired(sectionDate, cutoff)
     THEN [acc EXCEPT !.archiveByDate = BucketPush(@, IsoDate(sectionDate), section.content),
                      !.archivedCount = @ + 1,
                      !.keep = Append(@, section.content)]
     ELSE [acc EXCEPT !.keep = Append(@, section.content)]

\* one iteration of the for loop of archiveLogEntries over the sections
ClassifyStep(acc, section, cutoff) ==
  LET sectionDate == parseDateFromHeading(section.heading)
  IN IF IsExpired(sectionDate, cutoff)
     THEN [acc EXCEPT !.archiveByDate = BucketPush(@, IsoDate(sectionDate), section.content),
                      !.archivedCount = @ + 1]
     ELSE [acc EXCEPT !.keep = KeepPush(@, section.content)]

RECURSIVE Classify(_, _, _, _)
\* the for loop of archiveLogEntries over the parsed sections
Classify(secs, i, cutoff, acc) ==
  IF i > Len(secs) THEN acc
  ELSE Classify(secs, i + 1, cutoff, ClassifyStep(acc, secs[i], cutoff))

\* mutant of ArchiveContent: the existing archive content is not written back
ArchiveContentOverwrite(entries, existingArchive) == Join(entries, BLANK2)

\* entries.join('\n\n') + (existingArchive ? '\n\n' + existingArchive : '')
ArchiveContent(entries, existingArchive) ==
  Join(entries, BLANK2) \o
    (IF Len(existingArchive) > 0 THEN BLANK2 \o existingArchive ELSE <<>>)

\* mutant of NewContent: one newline between the header and the sections
NewContentOneNewline(hdr, keep) ==
  IF Len(keep) > 0
  THEN hdr \o <<NL>> \o Join(keep, BLANK2) \o <<NL>>
  ELSE hdr \o <<NL>>

\* keep.length > 0 ? header + '\n\n' + keep.join('\n\n') + '\n' : header + '\n'
NewContent(hdr, keep) ==
  IF Len(keep) > 0
  THEN hdr \o BLANK2 \o Join(keep, BLANK2) \o <<NL>>
  ELSE hdr \o <<NL>>

\* mutant of AfterClassify: no early return when nothing expired (the bucket
\* loop has nothing to do and the log is rewritten)
AfterClassifyNoReturn(archivedCount) == IF archivedCount = 0 THEN "rewrite" ELSE "flush"

\* the step that follows classification: return early when nothing expired
AfterClassify(archivedCount) == IF archivedCount = 0 THEN "sweep" ELSE "flush"

\* mutant of AfterFlush: the bucket loop ends after its first iteration
AfterFlushFirstOnly(done, total) == "rewrite"

\* the bucket loop goes on until every bucket of archiveByDate is written
AfterFlush(done, total) == IF done = total THEN "rewrite" ELSE "flush"

\* ------------------------------------------------------------- work units
STATUS_WORDS == {"COMPLETED", "ARCHIVED"}

\* mutant of Upper: the status pattern without its i flag
UpperNoFold(c) == c

\* the i flag of the status pattern: case folding of the marker tokens
Upper(c) ==
  CASE c = "status:" -> "STATUS:"
    [] c = "Status:" -> "STATUS:"
    [] c = "completed" -> "COMPLETED"
    [] c = "Completed" -> "COMPLETED"
    [] c = "archived" -> "ARCHIVED"
    [] c = "in_progress" -> "IN_PROGRESS"
    [] OTHER -> c

\* ^ under the m flag
AtLineStart(s, i) == IF i = 1 THEN TRUE ELSE s[i - 1] = NL

\* \s*$ under the m flag, tried at position j
EndsLine(s, j) ==
  \E r \in j..(Len(s) + 1) :
    /\ \A k \in j..(r - 1) : IsSpace(s[k])
    /\ (IF r = Len(s) + 1 THEN TRUE ELSE s[r] = NL)

\* /^##\s+Status:\s*(COMPLETED|ARCHIVED)\s*$/im matched at position i
StatusMatchAt(s, i) ==
  /\ AtLineStart(s, i)
  /\ i + 2 <= Len(s)
  /\ s[i] = "#" /\ s[i + 1] = "#" /\ IsSpace(s[i + 2])
  /\ LET p == SkipSpaces(s, i + 2)
     IN /\ p <= Len(s)
        /\ Upper(s[p]) = "STATUS:"
        /\ LET q == SkipSpaces(s, p + 1)
           IN /\ q <= Len(s)
              /\ Upper(s[q]) \in STATUS_WORDS
              /\ EndsLine(s, q + 1)

\* statusPattern.test(content)
isSprintCompleted(content) == \E i \in 1..Len(content) : StatusMatchAt(content, i)

\* f.name.includes('_sprint_') && f.name.endsWith('.md'); a file name is a
\* sequence of name parts
IsSprintFileName(name) ==
  /\ \E k \in 1..Len(name) : name[k] = "_sprint_"
  /\ Len(name) > 0 /\ name[Len(name)] = ".md"

\* ------------------------------------------------------------ policy file
\* A JSON value of the policy file: its typeof and, for a number, its value
\* (for a boolean 1 is true and 0 is false).  A number is val, or val + 1/2
\* when half is set.
JsUndefined == [type |-> "undefined", val |-> 0, half |-> FALSE]
JsNumber(n) == [type |-> "number", val |-> n, half |-> FALSE]
JsHalf(n) == [type |-> "number", val |-> n, half |-> TRUE]
JsBoolean(b) == [type |-> "boolean", val |-> IF b THEN 1 ELSE 0, half |-> FALSE]
JsString == [type |-> "string", val |-> 0, half |-> FALSE]

\* Math.floor of a number
MathFloor(d) == d.val

\* mutant of RetentionValid: the check of the upper limit is missing
RetentionValidNoMax(d) == d.type = "number" /\ d.val >= 1

\* typeof d === 'number' && d >= 1 && d <= 365 && Number.isFinite(d)
RetentionValid(d) ==
  /\ d.type = "number"
  /\ d.val >= 1
  /\ (d.val < 365 \/ (d.val = 365 /\ ~d.half))

Defaults ==
  [log_retention_days |-> DEFAULT_RETENTION_DAYS,
   archive_completed_sprints |-> TRUE,
   warn_tier1_tokens |-> 4000,
   warn_log_lines |-> 500]

\* loadConfig: the policy file is absent, is no JSON ("garbage"), or is a
\* JSON object; warned tells whether the parse warning was printed
loadConfig(file) ==
  IF file.kind = "absent" THEN [cfg |-> Defaults, warned |-> FALSE]
  ELSE IF file.kind = "garbage" THEN [cfg |-> Defaults, warned |-> TRUE]
  ELSE LET parsed == file.obj
           d == parsed.log_retention_days
           t == parsed.warn_tier1_tokens
           l == parsed.warn_log_lines
       IN [cfg |->
            [log_retention_days |->
               IF RetentionValid(d) THEN MathFloor(d) ELSE DEFAULT_RETENTION_DAYS,
             archive_completed_sprints |->
               parsed.archive_completed_sprints = JsBoolean(TRUE),
             warn_tier1_tokens |->
               IF t.type = "number" /\ t.val > 0 THEN t.val ELSE 4000,
             warn_log_lines |->
               IF l.type = "number" /\ l.val > 0 THEN l.val ELSE 500],
           warned |-> FALSE]

\* config.log_retention_days || DEFAULT_RETENTION_DAYS
RetentionDays(cfg) ==
  IF cfg.log_retention_days = 0 THEN DEFAULT_RETENTION_DAYS ELSE cfg.log_retention_days

\* config.archive_completed_sprints !== false
ArchiveSprintsEnabled(cfg) == cfg.archive_completed_sprints # FALSE

\* ------------------------------------------------------------ file system
\* the content of a path that holds no file
NoFile == <<"<absent>">>

\* mutant of ReadOrEmpty: the existing archive file is never read
ReadNothing(file) == <<>>

\* readFileSync of an archive file guarded by existsSync: '' when absent
ReadOrEmpty(file) == IF file = NoFile THEN <<>> ELSE file

ValidDateSet == {ValidDates[k] : k \in 1..Len(ValidDates)}

\* memory/workflows/<project>/<file name>
Projects == <<"alpha", "beta">>
SprintName == <<"dev", "_sprint_", "1", ".md">>
NotesName == <<"notes", ".md">>
FileOrder == <<SprintName, NotesName>>
UnitIds == {<<"alpha", SprintName>>, <<"alpha", NotesName>>, <<"beta", SprintName>>}
NoUnit == <<"", <<>>>>

\* readdirSync(projDir).filter(isFile && includes('_sprint_') && endsWith('.md'))
ListSprintFiles(unitFiles, proj) ==
  LET Present(name) == /\ <<proj, name>> \in UnitIds
                       /\ unitFiles[<<proj, name>>] # NoFile
                       /\ IsSprintFileName(name)
  IN SelectSeq(FileOrder, Present)

\* the paths a run writes
LogPath == [kind |-> "log", date |-> "", unit |-> NoUnit]
BucketPath(dateStr) == [kind |-> "bucket", date |-> dateStr, unit |-> NoUnit]
UnitArchivePath(dateStr, u) == [kind |-> "unit", date |-> dateStr, unit |-> u]

\* ------------------------------------------------------------------- state
VARIABLES
  log,            \* memory/GLOBAL_DAILY_LOG.md
  archive,        \* memory/archive/<date>/GLOBAL_DAILY_LOG.md, by date
  units,          \* memory/workflows/<project>/<name>, by unit id
  unitArchive,    \* memory/archive/<date>/workflows/<project>/<name>
  config,         \* memory-strategies.json
  now,            \* the clock
  faults,         \* failed file operations and crashes so far
  runs,           \* archive runs started so far
  pc,             \* the step the archive run is at
  dryRun,         \* the dryRun option the command line passed to run()
  startNow,       \* the clock reading the cutoff was computed from
  retentionDays,  \* run(): retentionDays
  sprintsEnabled, \* run(): archiveSprintsEnabled
  warned,         \* loadConfig printed the parse warning
  header,         \* archiveLogEntries: header
  sections,       \* archiveLogEntries: sections
  keep,           \* archiveLogEntries: keep
  archiveByDate,  \* archiveLogEntries: archiveByDate
  archivedCount,  \* archiveLogEntries: archivedCount
  flushed,        \* buckets of archiveByDate written so far
  projTodo,       \* archiveCompletedSprints: projects still to visit
  fileTodo,       \* archiveCompletedSprints: files of the project still to visit
  curUnit,        \* the unit copied to the archive and about to be unlinked
  sprintArchived, \* archiveCompletedSprints: archived
  origLog,        \* history: the log the project started with
  origUnits,      \* history: the work units the project started with
  logBefore,      \* history: the log when the current run started
  archiveBefore,  \* history: the archive files when the current run started
  writes,         \* history: the paths the current run has written, in order
  swept,          \* history: per unit, how often it was counted as archived
  delFail,        \* history: per unit, how often deleting the original failed
  sweptRun,       \* history: the units the current run counted as archived
  delFailRun,     \* history: the units whose delete failed in the current run
  sweepFailRun,   \* history: the caught list and read failures of the current run
  faultsBefore,   \* history: the failures so far when the current run started
  prev            \* history: the run before the current one

fsVars == <<log, archive, units, unitArchive, config>>
logLocals == <<startNow, retentionDays, sprintsEnabled, warned, header, sections, keep,
               archiveByDate, archivedCount>>
sweepLocals == <<projTodo, fileTodo, curUnit, sprintArchived>>
originVars == <<origLog, origUnits>>
runHistory == <<logBefore, archiveBefore, faultsBefore, prev>>
sweepHistory == <<swept, delFail, sweptRun, delFailRun, sweepFailRun>>
archiveVars == <<fsVars, now, faults, runs, pc, dryRun, logLocals, flushed, sweepLocals,
                 originVars, runHistory, writes, sweepHistory>>

\* The utility functions of src/utils are exercised on their own, one call at
\* a time, each in a specification of its own.
VARIABLES
  projectRoot,    \* resolveMemoryPath: projectRoot
  relativePath,   \* resolveMemoryPath: relativePath
  resolveResult   \* resolveMemoryPath: the path returned or the error thrown

pathVars == <<projectRoot, relativePath, resolveResult>>

VARIABLES
  target,         \* safeWrite: what is at filePath
  linked,         \* safeWrite: the file a symbolic link at filePath points to
  tmpFile,        \* safeWrite: the file at tmpPath
  writeContent,   \* safeWrite: content
  wpc,            \* safeWrite: the step the call is at
  target0,        \* history: what was at filePath when safeWrite was called
  failedAt,       \* history: the operation of the call that failed
  hadTmp,         \* history: the cleanup found a file at tmpPath
  unlinkFailed    \* history: the cleanup could not delete the file at tmpPath

writeVars == <<target, linked, tmpFile, writeContent, wpc, target0, failedAt, hadTmp,
               unlinkFailed>>

VARIABLES
  chain,          \* findProjectRoot: the directories from resolve(startDir) up to
                  \* the filesystem root, with what each holds under the marker names
  current,        \* findProjectRoot: current, as a position in chain
  depth,          \* findProjectRoot: depth
  findResult      \* findProjectRoot: the value returned

rootVars == <<chain, current, depth, findResult>>

VARIABLES
  util,           \* the function of files.js the calls are made to
  fileText,       \* the content of the file at filePath, NoFile when there is none
  dirSet,         \* the directories that exist, as resolved paths
  callLog         \* history: the calls made so far, with what each returned

fileVars == <<util, fileText, dirSet, callLog>>

\* Two archive runs on one project, as two processes: one is in hand, and its
\* locals are the variables of the run above; the other waits.
VARIABLES
  parked,         \* the locals of the run that waits
  bucketRead      \* archiveLogEntries: existingArchive, once it has been read

utilVars == <<pathVars, writeVars, rootVars, fileVars, parked, bucketRead>>
vars == <<archiveVars, utilVars>>

Finished == {"idle", "done", "abortedFlush", "abortedRewrite", "crashed"}
Running == {"flush", "rewrite", "sweep", "project", "file", "unlink"}

\* ----------------------------------------------------------- initial state
HeadingLine(rest) == HEADING_PREFIX \o rest

\* the lines a log is made of
LogLines ==
  { SEPARATOR, <<>>, <<"x">>,
    HeadingLine(<<"2020-01-01">>), HeadingLine(<<"2020-01-02">>),
    HeadingLine(<<"x">>), HeadingLine(<<InvalidDate>>), HeadingLine(<<>>) }

RECURSIVE LineSeqs(_)
\* the sequences of at most n log lines
LineSeqs(n) ==
  IF n = 0 THEN {<<>>}
  ELSE LET shorter == LineSeqs(n - 1)
       IN shorter \cup {Append(ls, l) : ls \in shorter, l \in LogLines}

LogDocs == {Join(ls, <<NL>>) : ls \in LineSeqs(MaxLines)}

\* the log as `ai-memory init` leaves it: a header and no entry
InitLog == Join(<< <<"x">>, SEPARATOR, <<>> >>, <<NL>>)

\* a log as later sessions leave it
BaseLog ==
  Join(<< <<"x">>, SEPARATOR, <<>>,
          HeadingLine(<<"2020-01-02">>), <<"x">>, <<>>,
          HeadingLine(<<"2020-01-01">>), <<"x">>, <<>> >>, <<NL>>)

StatusDoc(label, word, tail) ==
  <<"x", NL, NL, "#", "#", SP, label, SP, word>> \o tail \o <<NL, NL, "x">>

InProgressDoc == StatusDoc("Status:", "IN_PROGRESS", <<>>)
CompletedDoc == StatusDoc("Status:", "COMPLETED", <<>>)
CompletedLowerDoc == StatusDoc("status:", "completed", <<SP>>)
UnitDocs == {InProgressDoc, CompletedDoc, CompletedLowerDoc}

BaseUnits ==
  [u \in UnitIds |->
     IF u = <<"alpha", SprintName>> THEN CompletedDoc
     ELSE IF u = <<"alpha", NotesName>> THEN CompletedDoc
     ELSE InProgressDoc]

ConfigObject(days, sprintsFlag) ==
  [kind |-> "object",
   obj |-> [log_retention_days |-> days,
            archive_completed_sprints |-> sprintsFlag,
            warn_tier1_tokens |-> JsUndefined,
            warn_log_lines |-> JsUndefined]]

NoObject == ConfigObject(JsUndefined, JsUndefined).obj
ConfigAbsent == [kind |-> "absent", obj |-> NoObject]
ConfigGarbage == [kind |-> "garbage", obj |-> NoObject]

ConfigFiles ==
  {ConfigAbsent, ConfigGarbage} \cup
  {ConfigObject(d, f) :
     d \in {JsUndefined, JsString, JsNumber(0), JsHalf(0), JsNumber(1), JsHalf(1),
            JsNumber(2), JsNumber(365), JsHalf(365), JsNumber(366)},
     f \in {JsUndefined, JsBoolean(TRUE), JsBoolean(FALSE)}}

BaseConfig == ConfigObject(JsNumber(1), JsBoolean(TRUE))

\* the policy of the repository's archive tests: log rotation only
LogOnlyConfig == ConfigObject(JsNumber(1), JsBoolean(FALSE))

NoRun ==
  [outcome |-> "idle", startNow |-> TicksPerDay,
   archive0 |-> [d \in ValidDateSet |-> NoFile], delFail |-> {}, faulty |-> FALSE]

\* The project as `ai-memory init` and the user's sessions left it: a log,
\* work units and a policy file, no archive yet, no run started.
\* the three families of projects the archive runs are checked on
Families ==
  \/ log \in LogDocs \cup {NoFile} /\ units = BaseUnits /\ config = LogOnlyConfig
  \/ log = InitLog /\ units \in [UnitIds -> UnitDocs \cup {NoFile}] /\ config = BaseConfig
  \/ log = BaseLog /\ units = BaseUnits /\ config \in ConfigFiles

\* no archive yet, no run started
Fresh ==
  /\ archive = [d \in ValidDateSet |-> NoFile]
  /\ unitArchive = [k \in ValidDateSet \X UnitIds |-> NoFile]
  /\ now = TicksPerDay
  /\ faults = 0
  /\ runs = 0
  /\ pc = "idle"
  /\ dryRun = FALSE
  /\ startNow = now
  /\ retentionDays = DEFAULT_RETENTION_DAYS
  /\ sprintsEnabled = TRUE
  /\ warned = FALSE
  /\ header = <<>>
  /\ sections = <<>>
  /\ keep = <<>>
  /\ archiveByDate = <<>>
  /\ archivedCount = 0
  /\ flushed = 0
  /\ projTodo = <<>>
  /\ fileTodo = <<>>
  /\ curUnit = NoUnit
  /\ sprintArchived = 0
  /\ origLog = log
  /\ origUnits = units
  /\ logBefore = log
  /\ archiveBefore = archive
  /\ faultsBefore = 0
  /\ writes = <<>>
  /\ swept = [u \in UnitIds |-> 0]
  /\ delFail = [u \in UnitIds |-> 0]
  /\ sweptRun = {}
  /\ delFailRun = {}
  /\ sweepFailRun = {}
  /\ prev = NoRun
  /\ parked = [pc |-> "idle", dryRun |-> FALSE, startNow |-> TicksPerDay,
               retentionDays |-> DEFAULT_RETENTION_DAYS, sprintsEnabled |-> TRUE,
               warned |-> FALSE, header |-> <<>>, sections |-> <<>>, keep |-> <<>>,
               archiveByDate |-> <<>>, archivedCount |-> 0, flushed |-> 0,
               bucketRead |-> <<>>]
  /\ bucketRead = <<>>

\* no utility call in hand
NoCall == [kind |-> "none"]

PathsIdle == projectRoot = <<>> /\ relativePath = <<>> /\ resolveResult = NoCall

\* what is at a path: nothing, a regular file with its data, a symbolic link
\* or a directory
Absent == [kind |-> "absent", data |-> <<>>]
RegularFile(data) == [kind |-> "file", data |-> data]
SymbolicLink == [kind |-> "symlink", data |-> <<>>]
Directory == [kind |-> "directory", data |-> <<>>]

WriteIdle ==
  /\ target = Absent /\ linked = NoFile /\ tmpFile = NoFile /\ writeContent = <<>>
  /\ wpc = "idle" /\ target0 = Absent /\ failedAt = "none"
  /\ hadTmp = FALSE /\ unlinkFailed = FALSE

FindIdle == chain = <<>> /\ current = 0 /\ depth = 0 /\ findResult = NoCall

FilesIdle == util = "none" /\ fileText = NoFile /\ dirSet = {} /\ callLog = <<>>

UtilIdle == PathsIdle /\ WriteIdle /\ FindIdle /\ FilesIdle

Init == Families /\ Fresh /\ UtilIdle

\* ------------------------------------------------------------------ actions
\* run() up to the end of the classification loop of archiveLogEntries:
\* load the policy, read and parse the log, sort the sections into keep and
\* the date buckets.
RunStart ==
  /\ pc \in Finished
  /\ runs < MaxRuns
  /\ runs' = runs + 1
  /\ dryRun' \in BOOLEAN
  /\ LET loaded == loadConfig(config)
         days == RetentionDays(loaded.cfg)
         parsed == IF log = NoFile THEN [header |-> <<>>, sections |-> <<>>]
                   ELSE parseLogSections(log)
         cutoff == getCutoffDate(now, days)
         sorted == Classify(parsed.sections, 1, cutoff,
                            [keep |-> <<>>, archiveByDate |-> <<>>, archivedCount |-> 0])
     IN /\ retentionDays' = days
        /\ sprintsEnabled' = ArchiveSprintsEnabled(loaded.cfg)
        /\ warned' = loaded.warned
        /\ header' = parsed.header
        /\ sections' = parsed.sections
        /\ keep' = sorted.keep
        /\ archiveByDate' = sorted.archiveByDate
        /\ archivedCount' = sorted.archivedCount
        /\ pc' = AfterClassify(sorted.archivedCount)
  /\ startNow' = now
  /\ flushed' = 0
  /\ projTodo' = <<>>
  /\ fileTodo' = <<>>
  /\ curUnit' = NoUnit
  /\ sprintArchived' = 0
  /\ logBefore' = log
  /\ archiveBefore' = archive
  /\ writes' = <<>>
  /\ sweptRun' = {}
  /\ delFailRun' = {}
  /\ sweepFailRun' = {}
  /\ faultsBefore' = faults
  /\ prev' = [outcome |-> pc, startNow |-> startNow, archive0 |-> archiveBefore,
              delFail |-> delFailRun, faulty |-> faults # faultsBefore]
  /\ UNCHANGED <<utilVars, fsVars, now, faults, originVars, swept, delFail>>

\* mutant of ThrowFrom: the write is wrapped in a try that only warns, and the
\* run goes on with its next step
SwallowFrom(step) == IF step = "flush" THEN "rewrite" ELSE "sweep"

\* a safeWrite of archiveLogEntries throws: nothing catches it in
\* archiveLogEntries or in run(), the run ends there
ThrowFrom(step) == IF step = "flush" THEN "abortedFlush" ELSE "abortedRewrite"

\* One iteration of the bucket loop: read the archive file of the date, if
\* any, and safeWrite the new entries ahead of it.  A failed safeWrite throws
\* out of run().
FlushBucket ==
  /\ pc = "flush"
  /\ LET bucket == archiveByDate[flushed + 1]
         dateStr == bucket[1]
         existingArchive == ReadOrEmpty(archive[dateStr])
     IN \/ /\ archive' = [archive EXCEPT ![dateStr] = ArchiveContent(bucket[2], existingArchive)]
           /\ writes' = Append(writes, BucketPath(dateStr))
           /\ flushed' = flushed + 1
           /\ pc' = AfterFlush(flushed + 1, Len(archiveByDate))
           /\ UNCHANGED faults
        \/ /\ faults < MaxFaults
           /\ faults' = faults + 1
           /\ pc' = ThrowFrom("flush")
           /\ UNCHANGED <<archive, writes, flushed>>
  /\ UNCHANGED <<utilVars, runs, dryRun, log, units, unitArchive, config, now, logLocals, sweepLocals,
                 originVars, runHistory, sweepHistory>>

\* safeWrite(logPath, newContent); a failed safeWrite throws out of run()
RewriteLog ==
  /\ pc = "rewrite"
  /\ \/ /\ log' = NewContent(header, keep)
        /\ writes' = Append(writes, LogPath)
        /\ pc' = "sweep"
        /\ UNCHANGED faults
     \/ /\ faults < MaxFaults
        /\ faults' = faults + 1
        /\ pc' = ThrowFrom("rewrite")
        /\ UNCHANGED <<log, writes>>
  /\ UNCHANGED <<utilVars, runs, dryRun, archive, units, unitArchive, config, now, logLocals, flushed,
                 sweepLocals, originVars, runHistory, sweepHistory>>

\* the units of a project's listing, as unit ids
UnitsOf(unitFiles, proj) ==
  LET names == ListSprintFiles(unitFiles, proj)
  IN [k \in 1..Len(names) |-> <<proj, names[k]>>]

\* where the sweep goes once the files still to visit are known
AfterFile(todo) == IF Len(todo) = 0 THEN "project" ELSE "file"

\* run() after the log: skip the sweep when the policy disables it, else list
\* the project directories of memory/workflows.  A failed listing is caught by
\* the outermost try of archiveCompletedSprints, which then returns.
SweepEnter ==
  /\ pc = "sweep"
  /\ \/ /\ ~sprintsEnabled
        /\ pc' = "done"
        /\ UNCHANGED <<projTodo, faults>>
     \/ /\ sprintsEnabled
        /\ projTodo' = Projects
        /\ pc' = "project"
        /\ UNCHANGED faults
     \/ /\ sprintsEnabled
        /\ faults < MaxFaults
        /\ faults' = faults + 1
        /\ pc' = "done"
        /\ UNCHANGED projTodo
  /\ sweepFailRun' = IF faults' # faults THEN sweepFailRun \cup {<<"tree">>} ELSE sweepFailRun
  /\ UNCHANGED <<utilVars, runs, dryRun, fsVars, now, logLocals, flushed, fileTodo, curUnit, sprintArchived,
                 originVars, runHistory, writes, swept, delFail, sweptRun, delFailRun>>

\* mutant of OnProjectError: no per-project try, the failed listing goes to
\* the outermost catch and no project is visited after it
OnProjectErrorStop(todo) == <<>>

\* the per-project catch: the loop goes on with the next project
OnProjectError(todo) == Tail(todo)

\* One iteration of the project loop: list the sprint files of the next
\* project; a failed listing is caught and the loop goes on.  The run is done
\* when no project is left.
SweepProject ==
  /\ pc = "project"
  /\ \/ /\ Len(projTodo) = 0
        /\ pc' = "done"
        /\ UNCHANGED <<projTodo, fileTodo, faults>>
     \/ /\ Len(projTodo) > 0
        /\ fileTodo' = UnitsOf(units, Head(projTodo))
        /\ projTodo' = Tail(projTodo)
        /\ pc' = AfterFile(fileTodo')
        /\ UNCHANGED faults
     \/ /\ Len(projTodo) > 0
        /\ faults < MaxFaults
        /\ faults' = faults + 1
        /\ projTodo' = OnProjectError(projTodo)
        /\ pc' = "project"
        /\ UNCHANGED fileTodo
  /\ sweepFailRun' = IF faults' # faults
                     THEN sweepFailRun \cup {<<"project", Head(projTodo)>>}
                     ELSE sweepFailRun
  /\ UNCHANGED <<utilVars, runs, dryRun, fsVars, now, logLocals, flushed, curUnit, sprintArchived,
                 originVars, runHistory, writes, swept, delFail, sweptRun, delFailRun>>

\* mutant of SprintCopy: the write of the copy is lost without an error, and
\* the file loop goes on to the unlink
SprintCopyLost(content, existingCopy) == existingCopy

\* mutant of SprintCopy: the copy is put ahead of what the archive path
\* holds, as the entries of a log bucket are
SprintCopyPrepend(content, existingCopy) ==
  IF existingCopy = NoFile THEN content ELSE content \o BLANK2 \o existingCopy

\* safeWrite(archivePath, content): the file at the archive path after it;
\* what the path held before is not read
SprintCopy(content, existingCopy) == content

\* One iteration of the file loop up to the safeWrite of the archive copy:
\* read the file, test its status, write the copy under today's date.  A
\* failed read or safeWrite is caught by the per-file try and the loop goes on.
SweepFile ==
  /\ pc = "file"
  /\ LET u == Head(fileTodo)
         content == units[u]
         dateStr == IsoDate(now)
     IN \/ /\ ~isSprintCompleted(content)
           /\ pc' = AfterFile(Tail(fileTodo))
           /\ UNCHANGED <<unitArchive, writes, curUnit, faults>>
        \/ /\ isSprintCompleted(content)
           /\ unitArchive' = [unitArchive EXCEPT ![<<dateStr, u>>] = SprintCopy(content, @)]
           /\ writes' = Append(writes, UnitArchivePath(dateStr, u))
           /\ curUnit' = u
           /\ pc' = "unlink"
           /\ UNCHANGED faults
        \/ /\ faults < MaxFaults
           /\ faults' = faults + 1
           /\ pc' = AfterFile(Tail(fileTodo))
           /\ UNCHANGED <<unitArchive, writes, curUnit>>
  /\ fileTodo' = Tail(fileTodo)
  /\ sweepFailRun' = IF faults' # faults
                     THEN sweepFailRun \cup {<<"file", Head(fileTodo)>>}
                     ELSE sweepFailRun
  /\ UNCHANGED <<utilVars, runs, dryRun, log, archive, units, config, now, logLocals, flushed, projTodo,
                 sprintArchived, originVars, runHistory, swept, delFail, sweptRun,
                 delFailRun>>

\* mutant of CountArchived: no inner try around unlinkSync, a failed delete
\* goes to the per-file catch and the file is not counted
CountIfDeleted(archived, deleted) == IF deleted THEN archived + 1 ELSE archived

\* archived++ after the inner try/catch around unlinkSync: the file counts as
\* archived whether its original was deleted or not
CountArchived(archived, deleted) == archived + 1

\* unlinkSync of the original after its copy was written, and archived++: a
\* failed unlink is warned about and the file still counts as archived.
SweepUnlink ==
  /\ pc = "unlink"
  /\ \/ /\ units' = [units EXCEPT ![curUnit] = NoFile]
        /\ sprintArchived' = CountArchived(sprintArchived, TRUE)
        /\ UNCHANGED <<faults, delFail, delFailRun>>
     \/ /\ faults < MaxFaults
        /\ faults' = faults + 1
        /\ delFail' = [delFail EXCEPT ![curUnit] = @ + 1]
        /\ delFailRun' = delFailRun \cup {curUnit}
        /\ sprintArchived' = CountArchived(sprintArchived, FALSE)
        /\ UNCHANGED units
  /\ swept' = [swept EXCEPT ![curUnit] = @ + 1]
  /\ sweptRun' = sweptRun \cup {curUnit}
  /\ curUnit' = NoUnit
  /\ pc' = AfterFile(fileTodo)
  /\ UNCHANGED <<utilVars, runs, dryRun, log, archive, unitArchive, config, now, logLocals, flushed,
                 projTodo, fileTodo, originVars, runHistory, writes, sweepFailRun>>

\* the process stops between two steps of a run
Crash ==
  /\ pc \in Running
  /\ faults < MaxFaults
  /\ faults' = faults + 1
  /\ pc' = "crashed"
  /\ UNCHANGED <<utilVars, runs, dryRun, fsVars, now, logLocals, flushed, sweepLocals, originVars,
                 runHistory, writes, sweepHistory>>

\* time passes between two runs
Tick ==
  /\ pc \in Finished
  /\ now < MaxNow
  /\ now' = now + 1
  /\ UNCHANGED <<utilVars, runs, dryRun, fsVars, faults, pc, logLocals, flushed, sweepLocals, originVars,
                 runHistory, writes, sweepHistory>>

Next ==
  \/ RunStart
  \/ FlushBucket
  \/ RewriteLog
  \/ SweepEnter
  \/ SweepProject
  \/ SweepFile
  \/ SweepUnlink
  \/ Crash
  \/ Tick

Spec == Init /\ [][Next]_vars

\* The archive runs on a project whose work unit beta/dev_sprint_1.md holds a
\* status line of one of these shapes: the marker as it is written, with
\* ARCHIVED, in lower case, IN_PROGRESS, split after '##', split after
\* 'Status:', followed by a word, indented, preceded by a word, and without
\* the blank after 'Status:'.  Between two runs the user may write a work unit
\* again that a sweep has moved to the archive.
InitStatus ==
  /\ log = BaseLog
  /\ config = BaseConfig
  /\ units \in
       { [BaseUnits EXCEPT ![<<"beta", SprintName>>] = doc] :
           doc \in { CompletedDoc, StatusDoc("Status:", "ARCHIVED", <<>>),
                     CompletedLowerDoc, InProgressDoc,
                     <<"#", "#", NL, "Status:", SP, "COMPLETED">>,
                     <<"#", "#", SP, "Status:", NL, "COMPLETED">>,
                     <<"#", "#", SP, "Status:", SP, "COMPLETED", SP, "x">>,
                     <<SP, "#", "#", SP, "Status:", SP, "COMPLETED">>,
                     <<"x", "#", "#", SP, "Status:", SP, "COMPLETED">>,
                     <<"#", "#", SP, "Status:", "COMPLETED">> } }
  /\ Fresh
  /\ UtilIdle

\* Between two runs the user writes a file again at the path of a work unit
\* that a sweep has deleted; the next sweep reads whatever is there.
RecreateUnit ==
  /\ pc \in Finished
  /\ runs < MaxRuns
  /\ \E u \in UnitIds, doc \in UnitDocs :
       /\ units[u] = NoFile
       /\ swept[u] > 0
       /\ units' = [units EXCEPT ![u] = doc]
  /\ UNCHANGED <<utilVars, runs, dryRun, log, archive, unitArchive, config, now, faults, pc,
                 logLocals, flushed, sweepLocals, originVars, runHistory, writes,
                 sweepHistory>>

SpecStatus == InitStatus /\ [][Next \/ RecreateUnit]_vars

\* ------------------------------------------ two archive runs on one project
\* The two runs are followed through archiveLogEntries, one file operation at
\* a time: the read of the log with the classification, the read of an
\* archive file, the safeWrite of a bucket, the safeWrite of the log.  A
\* safeWrite puts the file in place with one rename from a temporary file of
\* a random name, which the other run does not touch.  The log is one as later
\* sessions leave it, or one made of headings only: bare, with a word or with
\* a date.
InitRace ==
  /\ log \in {BaseLog} \cup
             {d \in LogDocs : \A k \in 1..LineCount(d) :
                /\ StartsWith(Split(d)[k], HEADING_PREFIX)
                /\ Split(d)[k] # HeadingLine(<<InvalidDate>>)}
  /\ units = BaseUnits
  /\ config = LogOnlyConfig
  /\ Fresh
  /\ UtilIdle

\* the scheduler takes the run in hand off the processor and resumes the other
Yield ==
  /\ parked' = [pc |-> pc, dryRun |-> dryRun, startNow |-> startNow,
                retentionDays |-> retentionDays, sprintsEnabled |-> sprintsEnabled,
                warned |-> warned, header |-> header, sections |-> sections,
                keep |-> keep, archiveByDate |-> archiveByDate,
                archivedCount |-> archivedCount, flushed |-> flushed,
                bucketRead |-> bucketRead]
  /\ pc' = parked.pc
  /\ dryRun' = parked.dryRun
  /\ startNow' = parked.startNow
  /\ retentionDays' = parked.retentionDays
  /\ sprintsEnabled' = parked.sprintsEnabled
  /\ warned' = parked.warned
  /\ header' = parked.header
  /\ sections' = parked.sections
  /\ keep' = parked.keep
  /\ archiveByDate' = parked.archiveByDate
  /\ archivedCount' = parked.archivedCount
  /\ flushed' = parked.flushed
  /\ bucketRead' = parked.bucketRead
  /\ UNCHANGED <<pathVars, writeVars, rootVars, fileVars, fsVars, now, faults, runs,
                 sweepLocals, originVars, runHistory, writes, sweepHistory>>

\* the first half of an iteration of the bucket loop: existsSync and
\* readFileSync of the archive file of the date
FlushRead ==
  /\ pc = "flush"
  /\ bucketRead' = ReadOrEmpty(archive[archiveByDate[flushed + 1][1]])
  /\ pc' = "flushWrite"
  /\ UNCHANGED <<pathVars, writeVars, rootVars, fileVars, parked, fsVars, now, faults, runs,
                 dryRun, logLocals, flushed, sweepLocals, originVars, runHistory, writes,
                 sweepHistory>>

\* the second half: safeWrite of the new entries ahead of what was read.  A
\* failed safeWrite throws out of run().
FlushWrite ==
  /\ pc = "flushWrite"
  /\ LET bucket == archiveByDate[flushed + 1]
         dateStr == bucket[1]
     IN \/ /\ archive' = [archive EXCEPT ![dateStr] = ArchiveContent(bucket[2], bucketRead)]
           /\ writes' = Append(writes, BucketPath(dateStr))
           /\ flushed' = flushed + 1
           /\ pc' = AfterFlush(flushed + 1, Len(archiveByDate))
           /\ UNCHANGED faults
        \/ /\ faults < MaxFaults
           /\ faults' = faults + 1
           /\ pc' = ThrowFrom("flush")
           /\ UNCHANGED <<archive, writes, flushed>>
  /\ bucketRead' = <<>>
  /\ UNCHANGED <<pathVars, writeVars, rootVars, fileVars, parked, runs, dryRun, log, units,
                 unitArchive, config, now, logLocals, sweepLocals, originVars, runHistory,
                 sweepHistory>>

NextRace ==
  \/ RunStart
  \/ FlushRead
  \/ FlushWrite
  \/ RewriteLog
  \/ Yield
  \/ Crash
  \/ Tick

SpecRace == InitRace /\ [][NextRace]_vars

\* ------------------------------------------------------- src/utils/paths.js
\* A path is a sequence of characters; SEP is path.sep of a POSIX platform.
SEP == "/"
DOT == "."

\* the characters paths are made of
PathChars == {SEP, DOT, "a", "2"}

RECURSIVE StringsUpTo(_)
\* the strings of at most n path characters
StringsUpTo(n) ==
  IF n = 0 THEN {<<>>}
  ELSE LET shorter == StringsUpTo(n - 1)
       IN shorter \cup {Append(t, c) : t \in shorter, c \in PathChars}

\* process.cwd()
Cwd == <<SEP, "2">>

RECURSIVE SegmentsFrom(_, _, _)
SegmentsFrom(path, i, cur) ==
  IF i > Len(path) THEN <<cur>>
  ELSE IF path[i] = SEP THEN <<cur>> \o SegmentsFrom(path, i + 1, <<>>)
  ELSE SegmentsFrom(path, i + 1, Append(cur, path[i]))

\* the parts of a path between its separators, empty ones included
Segments(path) == SegmentsFrom(path, 1, <<>>)

RECURSIVE NormalizeSegments(_, _, _)
\* normalizeString of path.resolve on an absolute path: '' and '.' are dropped,
\* '..' drops the part before it, and stays at the root when there is none
NormalizeSegments(segs, i, stack) ==
  IF i > Len(segs) THEN stack
  ELSE IF segs[i] = <<>> \/ segs[i] = <<DOT>>
       THEN NormalizeSegments(segs, i + 1, stack)
       ELSE IF segs[i] = <<DOT, DOT>>
            THEN NormalizeSegments(segs, i + 1,
                                   IF Len(stack) = 0 THEN stack
                                   ELSE SubSeq(stack, 1, Len(stack) - 1))
            ELSE NormalizeSegments(segs, i + 1, Append(stack, segs[i]))

RECURSIVE ResolveRaw(_, _)
\* the loop of path.resolve from the last argument to the first and then the
\* working directory: arguments are put in front, separated by '/', until one
\* is absolute; empty arguments are skipped
ResolveRaw(paths, k) ==
  IF k = 0 THEN <<>>
  ELSE IF Len(paths[k]) = 0 THEN ResolveRaw(paths, k - 1)
  ELSE IF paths[k][1] = SEP THEN paths[k]
  ELSE ResolveRaw(paths, k - 1) \o <<SEP>> \o paths[k]

\* path.resolve(...paths)
PathResolve(paths) ==
  LET all == <<Cwd>> \o paths
  IN <<SEP>> \o Join(NormalizeSegments(Segments(ResolveRaw(all, Len(all))), 1, <<>>), <<SEP>>)

\* String.prototype.endsWith(suffix)
EndsWith(str, suffix) ==
  Len(str) >= Len(suffix) /\ SubSeq(str, Len(str) - Len(suffix) + 1, Len(str)) = suffix

\* mutant of IsContained: the root is compared without the separator after it
IsContainedNoSep(resolved, normalizedRoot, rootWithSep) ==
  StartsWith(resolved, normalizedRoot) \/ resolved = normalizedRoot

\* resolved.startsWith(rootWithSep) || resolved === normalizedRoot
IsContained(resolved, normalizedRoot, rootWithSep) ==
  StartsWith(resolved, rootWithSep) \/ resolved = normalizedRoot

resolveMemoryPath(root, rel) ==
  IF Trim(root) = <<>> \/ Trim(rel) = <<>> THEN [kind |-> "TypeError"]
  ELSE LET resolved == PathResolve(<<root, rel>>)
           normalizedRoot == PathResolve(<<root>>)
           rootWithSep == IF EndsWith(normalizedRoot, <<SEP>>) THEN normalizedRoot
                          ELSE normalizedRoot \o <<SEP>>
       IN IF ~IsContained(resolved, normalizedRoot, rootWithSep)
          THEN [kind |-> "escapes"]
          ELSE [kind |-> "ok", path |-> resolved]

\* a project at rest, for the specifications of the utility functions
ArchiveIdle == log = BaseLog /\ units = BaseUnits /\ config = BaseConfig /\ Fresh

InitPaths ==
  /\ ArchiveIdle
  /\ WriteIdle
  /\ FindIdle
  /\ FilesIdle
  /\ projectRoot \in StringsUpTo(MaxRootLen)
  /\ relativePath \in StringsUpTo(MaxRelLen)
  /\ resolveResult = NoCall

\* one call of resolveMemoryPath
ResolveMemoryPath ==
  /\ resolveResult = NoCall
  /\ resolveResult' = resolveMemoryPath(projectRoot, relativePath)
  /\ UNCHANGED <<archiveVars, parked, bucketRead, writeVars, rootVars, fileVars, projectRoot, relativePath>>

NextPaths == ResolveMemoryPath

SpecPaths == InitPaths /\ [][NextPaths]_vars

\* findProjectRoot.  What a directory holds under a marker name is "none",
\* "dir", "file", or "error" when existsSync or statSync on it throws.
ROOT_MARKERS == <<".git", "package.json">>

DirWith(git, pkg) == [git |-> git, pkg |-> pkg]

\* the directories of the model
DirKinds ==
  { DirWith("none", "none"), DirWith("dir", "none"), DirWith("none", "file"),
    DirWith("file", "file"), DirWith("error", "file"), DirWith("none", "dir") }

RECURSIVE ChainsUpTo(_)
\* the directory chains of at most n directories
ChainsUpTo(n) ==
  IF n = 0 THEN {<<>>}
  ELSE LET shorter == ChainsUpTo(n - 1)
       IN shorter \cup {Append(c, d) : c \in shorter, d \in DirKinds}

\* the body of the try for one marker: TRUE when findProjectRoot returns on it
MarkerFound(marker, dir) ==
  LET entry == IF marker = ".git" THEN dir.git ELSE dir.pkg
  IN IF entry \in {"none", "error"} THEN FALSE
     ELSE IF marker = ".git" THEN entry \in {"dir", "file"}
     ELSE entry = "file"

\* mutant of FirstMarker: package.json is looked for before .git
FirstMarkerManifestFirst(dir) ==
  IF MarkerFound(ROOT_MARKERS[2], dir) THEN ROOT_MARKERS[2]
  ELSE IF MarkerFound(ROOT_MARKERS[1], dir) THEN ROOT_MARKERS[1]
  ELSE "none"

\* the for loop over ROOT_MARKERS on one directory: the marker it returns on,
\* "none" when it ends without returning
FirstMarker(dir) ==
  IF MarkerFound(ROOT_MARKERS[1], dir) THEN ROOT_MARKERS[1]
  ELSE IF MarkerFound(ROOT_MARKERS[2], dir) THEN ROOT_MARKERS[2]
  ELSE "none"

NullResult == [kind |-> "null"]

InitFind ==
  /\ ArchiveIdle
  /\ PathsIdle
  /\ WriteIdle
  /\ FilesIdle
  /\ chain \in ChainsUpTo(MaxChain) \ {<<>>}
  /\ current = 1
  /\ depth = 0
  /\ findResult = NoCall

\* one iteration of the while loop of findProjectRoot, or its end
FindStep ==
  /\ findResult = NoCall
  /\ IF depth < MAX_TRAVERSAL_DEPTH
     THEN IF FirstMarker(chain[current]) # "none"
          THEN /\ findResult' = [kind |-> "found", root |-> current,
                                 marker |-> FirstMarker(chain[current])]
               /\ UNCHANGED <<current, depth>>
          ELSE IF current = Len(chain)
               THEN /\ findResult' = NullResult
                    /\ UNCHANGED <<current, depth>>
               ELSE /\ current' = current + 1
                    /\ depth' = depth + 1
                    /\ UNCHANGED findResult
     ELSE /\ findResult' = NullResult
          /\ UNCHANGED <<current, depth>>
  /\ UNCHANGED <<archiveVars, parked, bucketRead, pathVars, writeVars, fileVars, chain>>

NextFind == FindStep

SpecFind == InitFind /\ [][NextFind]_vars

\* ------------------------------------------------------- src/utils/files.js
RECURSIVE TextsUpTo(_)
\* the file contents of at most n characters
TextsUpTo(n) ==
  IF n = 0 THEN {<<>>}
  ELSE LET shorter == TextsUpTo(n - 1)
       IN shorter \cup {Append(t, c) : t \in shorter, c \in {"x", "y"}}

\* the beginnings of a text, the empty one and the text itself included
Prefixes(text) == {SubSeq(text, 1, n) : n \in 0..Len(text)}

\* existsSync(filePath): follows a symbolic link
ExistsSync(node, linkedFile) ==
  \/ node.kind \in {"file", "directory"}
  \/ node.kind = "symlink" /\ linkedFile # NoFile

\* lstatSync(filePath).isSymbolicLink()
IsSymbolicLink(node) == node.kind = "symlink"

\* existsSync(filePath) && lstatSync(filePath).isSymbolicLink()
RefusesSymlink(node, linkedFile) == ExistsSync(node, linkedFile) /\ IsSymbolicLink(node)

\* mutant of CleanedUp: the catch rethrows without deleting the temp file
NotCleanedUp(tmp, unlinkOk) == tmp

\* if (existsSync(tmpPath)) unlinkSync(tmpPath), inside a try that ignores a
\* failure: the file at tmpPath after the cleanup
CleanedUp(tmp, unlinkOk) == IF tmp # NoFile /\ unlinkOk THEN NoFile ELSE tmp

\* safeWrite is called: something or nothing is at filePath
InitWrite ==
  /\ ArchiveIdle
  /\ PathsIdle
  /\ FindIdle
  /\ FilesIdle
  /\ \/ target = Absent /\ linked = NoFile
     \/ target = Directory /\ linked = NoFile
     \/ target \in {RegularFile(d) : d \in TextsUpTo(MaxContentLen)} /\ linked = NoFile
     \/ target = SymbolicLink /\ linked \in TextsUpTo(MaxContentLen) \cup {NoFile}
  /\ writeContent \in TextsUpTo(MaxContentLen)
  /\ tmpFile = NoFile
  /\ wpc = "start"
  /\ target0 = target
  /\ failedAt = "none"
  /\ hadTmp = FALSE
  /\ unlinkFailed = FALSE

\* ensureDir(dir) and the symbolic link check: a failing ensureDir throws, a
\* symbolic link that existsSync sees is refused, else the call goes on.
SafeWriteEnter ==
  /\ wpc = "start"
  /\ \/ wpc' = "thrown" /\ failedAt' = "ensureDir"
     \/ /\ RefusesSymlink(target, linked)
        /\ wpc' = "refused"
        /\ UNCHANGED failedAt
     \/ /\ ~RefusesSymlink(target, linked)
        /\ wpc' = "write"
        /\ UNCHANGED failedAt
  /\ UNCHANGED <<archiveVars, parked, bucketRead, pathVars, rootVars, fileVars, target, linked, tmpFile, writeContent, target0,
                 hadTmp, unlinkFailed>>

\* writeFileSync(tmpPath, content): a failed write leaves no file at tmpPath
\* or one with a beginning of the content
SafeWriteTmp ==
  /\ wpc = "write"
  /\ \/ /\ tmpFile' = writeContent
        /\ wpc' = "rename"
        /\ UNCHANGED failedAt
     \/ /\ tmpFile' \in Prefixes(writeContent) \cup {NoFile}
        /\ wpc' = "cleanup"
        /\ failedAt' = "write"
  /\ UNCHANGED <<archiveVars, parked, bucketRead, pathVars, rootVars, fileVars, target, linked, writeContent, target0, hadTmp,
                 unlinkFailed>>

\* renameSync(tmpPath, filePath): the file at tmpPath takes the place of what
\* is at filePath (of a symbolic link itself, not of what it points to); it
\* fails on a directory, and may fail on anything.
SafeWriteRename ==
  /\ wpc = "rename"
  /\ \/ /\ target.kind # "directory"
        /\ target' = RegularFile(tmpFile)
        /\ tmpFile' = NoFile
        /\ wpc' = "returned"
        /\ UNCHANGED failedAt
     \/ /\ wpc' = "cleanup"
        /\ failedAt' = "rename"
        /\ UNCHANGED <<target, tmpFile>>
  /\ UNCHANGED <<archiveVars, parked, bucketRead, pathVars, rootVars, fileVars, linked, writeContent, target0, hadTmp,
                 unlinkFailed>>

\* the catch of safeWrite: delete the file at tmpPath if there is one, ignore
\* a failure to, and throw
SafeWriteCleanup ==
  /\ wpc = "cleanup"
  /\ hadTmp' = (tmpFile # NoFile)
  /\ \E unlinkOk \in BOOLEAN :
       /\ tmpFile' = CleanedUp(tmpFile, unlinkOk)
       /\ unlinkFailed' = (tmpFile # NoFile /\ ~unlinkOk)
  /\ wpc' = "thrown"
  /\ UNCHANGED <<archiveVars, parked, bucketRead, pathVars, rootVars, fileVars, target, linked, writeContent, target0, failedAt>>

\* the process stops in the middle of the call
SafeWriteKilled ==
  /\ wpc \in {"write", "rename", "cleanup"}
  /\ wpc' = "killed"
  /\ UNCHANGED <<archiveVars, parked, bucketRead, pathVars, rootVars, fileVars, target, linked, tmpFile, writeContent, target0,
                 failedAt, hadTmp, unlinkFailed>>

NextWrite ==
  \/ SafeWriteEnter
  \/ SafeWriteTmp
  \/ SafeWriteRename
  \/ SafeWriteCleanup
  \/ SafeWriteKilled

SpecWrite == InitWrite /\ [][NextWrite]_vars

\* ensureLineInFile, safeAppend and ensureDir, called a few times in a row on
\* one file or one directory tree.

\* mutant of LineSeparator: nothing is put between the content and the line
NoLineSeparator(existing) == <<>>

\* existing.length > 0 && !existing.endsWith('\n') ? '\n' : ''
LineSeparator(existing) ==
  IF Len(existing) > 0 /\ existing[Len(existing)] # NL THEN <<NL>> ELSE <<>>

\* ensureLineInFile up to its writes: what it returns and the content it
\* leaves or asks safeWrite to write
ensureLineInFile(file, line) ==
  LET existing == ReadOrEmpty(file)
      trimmedLine == Trim(line)
      lines == Split(existing)
  IN IF \E k \in 1..Len(lines) : Trim(lines[k]) = trimmedLine
     THEN [added |-> FALSE, content |-> file]
     ELSE [added |-> TRUE,
           content |-> existing \o LineSeparator(existing) \o trimmedLine \o <<NL>>]

\* mutant of InsertAfterHeader: the content is put after the body
InsertAtEnd(hdr, content, body) == hdr \o BLANK2 \o body \o BLANK2 \o Trim(content)

\* header + '\n\n' + content.trim() + '\n\n' + (body || '')
InsertAfterHeader(hdr, content, body) == hdr \o BLANK2 \o Trim(content) \o BLANK2 \o body

\* safeAppend on an existing file: the text it asks safeWrite to write
safeAppend(existing, content) ==
  LET lines == Split(existing)
      headerEndIndex == FirstSeparator(lines, 1)
  IN IF headerEndIndex > 0
     THEN InsertAfterHeader(Join(SubSeq(lines, 1, headerEndIndex), <<NL>>), content,
                            TrimStart(Join(SubSeq(lines, headerEndIndex + 1, Len(lines)),
                                           <<NL>>)))
     ELSE Trim(content) \o BLANK2 \o existing

\* mkdirSync(dirPath, { recursive: true }): the directory and those above it
DirsTo(path) ==
  {SubSeq(path, 1, n) :
     n \in {k \in 1..Len(path) : k = 1 \/ k = Len(path) \/ path[k + 1] = SEP}}

InitFiles ==
  /\ ArchiveIdle
  /\ PathsIdle
  /\ WriteIdle
  /\ FindIdle
  /\ callLog = <<>>
  /\ \/ /\ util \in {"ensureLineInFile", "safeAppend"}
        /\ fileText \in LogDocs \cup {NoFile}
        /\ dirSet = {<<SEP>>}
     \/ /\ util = "ensureDir"
        /\ fileText = NoFile
        /\ dirSet \in {{<<SEP>>}, DirsTo(<<SEP, "a">>)}

\* one call of ensureLineInFile, with the line of the calls before it; its
\* ensureDir or safeWrite may throw, and then the file is as it was
EnsureLineInFile ==
  /\ util = "ensureLineInFile"
  /\ Len(callLog) < MaxCalls
  /\ \E line \in {<<"x">>, <<SP, "y", NL>>, <<"#", "#">>, <<>>, <<"x", NL, "y">>} :
       /\ callLog # <<>> => line = callLog[1].arg
       /\ LET r == ensureLineInFile(fileText, line)
          IN \/ /\ fileText' = r.content
                /\ callLog' = Append(callLog,
                     [arg |-> line, root |-> <<>>, before |-> fileText,
                      result |-> IF r.added THEN "true" ELSE "false"])
             \/ /\ r.added
                /\ UNCHANGED fileText
                /\ callLog' = Append(callLog,
                     [arg |-> line, root |-> <<>>, before |-> fileText, result |-> "throws"])
  /\ UNCHANGED <<archiveVars, parked, bucketRead, pathVars, writeVars, rootVars, util, dirSet>>

\* one call of safeAppend: it throws when there is no file, and when its
\* safeWrite throws, and then leaves things as they were
SafeAppend ==
  /\ util = "safeAppend"
  /\ Len(callLog) < MaxCalls
  /\ \E content \in { HeadingLine(<<"n">>),
                       <<NL, SP>> \o HeadingLine(<<"m">>) \o <<NL>> \o SEPARATOR \o <<NL>> } :
       \/ /\ fileText = NoFile
          /\ UNCHANGED fileText
          /\ callLog' = Append(callLog,
               [arg |-> content, root |-> <<>>, before |-> fileText,
                result |-> "does not exist"])
       \/ /\ fileText # NoFile
          /\ fileText' = safeAppend(fileText, content)
          /\ callLog' = Append(callLog,
               [arg |-> content, root |-> <<>>, before |-> fileText, result |-> "returned"])
       \/ /\ fileText # NoFile
          /\ UNCHANGED fileText
          /\ callLog' = Append(callLog,
               [arg |-> content, root |-> <<>>, before |-> fileText, result |-> "throws"])
  /\ UNCHANGED <<archiveVars, parked, bucketRead, pathVars, writeVars, rootVars, util, dirSet>>

\* one call of ensureDir(dirPath, projectRoot), dirPath <<>> the empty string
\* and root <<>> a call without projectRoot: the function has one parameter, a second argument is not
\* looked at
EnsureDir ==
  /\ util = "ensureDir"
  /\ Len(callLog) < MaxCalls
  /\ \E dirPath \in { <<>>, <<SEP, "a">>, <<SEP, "a", SEP, "2">>, <<SEP, "2">>,
                       <<SEP, "a", "2">>, <<SEP, "a", SEP, DOT, DOT, SEP, "2">> },
        root \in {<<>>, <<SEP, "a">>} :
       LET resolved == PathResolve(<<dirPath>>)
           Called(result) ==
             callLog' = Append(callLog, [arg |-> dirPath, root |-> root,
                                         before |-> dirSet, result |-> result])
       IN \/ /\ Trim(dirPath) = <<>>
             /\ UNCHANGED dirSet
             /\ Called("TypeError")
          \/ /\ Trim(dirPath) # <<>>
             /\ dirSet' = IF resolved \in dirSet THEN dirSet
                          ELSE dirSet \cup DirsTo(resolved)
             /\ Called("returned")
          \/ /\ Trim(dirPath) # <<>>
             /\ resolved \notin dirSet
             /\ UNCHANGED dirSet
             /\ Called("throws")
  /\ UNCHANGED <<archiveVars, parked, bucketRead, pathVars, writeVars, rootVars, util, fileText>>

NextFiles ==
  \/ EnsureLineInFile
  \/ SafeAppend
  \/ EnsureDir

SpecFiles == InitFiles /\ [][NextFiles]_vars

\* =================================================================== claims
\* Helpers of the properties.  They are written from the statements of the
\* claims, not from the operators of the model above.

\* the rest of the line of s from position j on is blank
RestOfLineBlank(s, j) ==
  \E r \in j..(Len(s) + 1) :
    /\ \A k \in j..(r - 1) : s[k] = SP
    /\ (IF r = Len(s) + 1 THEN TRUE ELSE s[r] = NL)

\* text occurs in s at position i as whole lines: it starts a line there and
\* only blanks follow it on its last line
LinesAt(text, s, i) ==
  /\ i >= 1 /\ i + Len(text) - 1 <= Len(s)
  /\ SubSeq(s, i, i + Len(text) - 1) = text
  /\ (IF i = 1 THEN TRUE ELSE s[i - 1] = NL)
  /\ RestOfLineBlank(s, i + Len(text))

\* text occurs in s as whole lines
Occurs(text, s) == \E i \in 1..Len(s) : LinesAt(text, s, i)

RECURSIVE OccurInOrder(_, _, _)
\* the texts occur in s as whole lines, one after the other, from position p on
OccurInOrder(texts, s, p) ==
  IF Len(texts) = 0 THEN TRUE
  ELSE \E i \in p..Len(s) :
         /\ LinesAt(texts[1], s, i)
         /\ OccurInOrder(Tail(texts), s, i + Len(texts[1]))

\* old is the end of new
IsSuffix(old, new) ==
  Len(old) <= Len(new) /\ SubSeq(new, Len(new) - Len(old) + 1, Len(new)) = old

RECURSIVE IsSubsequence(_, _)
\* a is b with some elements left out, the others in their order
IsSubsequence(a, b) ==
  IF Len(a) = 0 THEN TRUE
  ELSE IF Len(b) = 0 THEN FALSE
  ELSE IF a[1] = b[1] THEN IsSubsequence(Tail(a), Tail(b))
  ELSE IsSubsequence(a, Tail(b))

RECURSIVE SeqBag(_)
\* the elements of a sequence with their multiplicities
SeqBag(q) == IF Len(q) = 0 THEN EmptyBag ELSE SetToBag({q[1]}) (+) SeqBag(Tail(q))

RECURSIVE AllEntries(_)
\* the entries of all buckets, bucket after bucket
AllEntries(buckets) ==
  IF Len(buckets) = 0 THEN <<>> ELSE buckets[1][2] \o AllEntries(Tail(buckets))

SectionContents == [i \in 1..Len(sections) |-> sections[i].content]

Started == runs > 0
LogRewritten == \E k \in 1..Len(writes) : writes[k].kind = "log"
InLiveLog(text) == log # NoFile /\ Occurs(text, log)
InArchive(text) == \E d \in ValidDateSet : archive[d] # NoFile /\ Occurs(text, archive[d])

\* C1: within a run every bucket write precedes the rewrite of the live log,
\* so at every step of the run, and after a crash or a failed write, each
\* section of the log the run read stands in the live log or in an archive
\* file.
C1_NoSectionLost ==
  Started =>
    /\ \A i \in 1..Len(writes) : \A j \in 1..Len(writes) :
         (writes[i].kind = "log" /\ writes[j].kind = "bucket") => j < i
    /\ \A i \in 1..Len(sections) :
         InLiveLog(sections[i].content) \/ InArchive(sections[i].content)

\* C1 witness: the run stopped after its bucket writes and before the rewrite,
\* with an expired section in both places.
C1_Witness ==
  /\ pc \in {"crashed", "abortedRewrite"}
  /\ flushed > 0 /\ flushed = Len(archiveByDate)
  /\ ~LogRewritten
  /\ \E i \in 1..Len(sections) :
       /\ InLiveLog(sections[i].content)
       /\ InArchive(sections[i].content)

\* C2: the classification puts every parsed section in exactly one of keep and
\* the buckets (counts add up to N, nothing duplicated or dropped), keep is in
\* the original order, and the rewritten log holds the kept sections in that
\* order.
C2_Partition ==
  Started =>
    /\ Len(keep) + Len(AllEntries(archiveByDate)) = Len(sections)
    /\ archivedCount = Len(AllEntries(archiveByDate))
    /\ SeqBag(keep) (+) SeqBag(AllEntries(archiveByDate)) = SeqBag(SectionContents)
    /\ IsSubsequence(keep, SectionContents)
    /\ LogRewritten => OccurInOrder(keep, log, 1)

\* C2 witness: a rewritten log with two different kept sections and an
\* expired one.
C2_Witness ==
  /\ LogRewritten
  /\ archivedCount > 0
  /\ Len(keep) >= 2 /\ keep[1] # keep[2]

\* C3: a flush onto an existing archive file writes the new entries, a blank
\* line, then the complete previous content; no step ever shortens or removes
\* an archive file.
C3_PrependOnly ==
  [][\A d \in ValidDateSet :
       archive[d] # NoFile =>
         /\ archive'[d] # NoFile
         /\ IsSuffix(archive[d], archive'[d])
         /\ (pc = "flush" /\ flushed' = flushed + 1 /\ archiveByDate[flushed'][1] = d) =>
              archive'[d] =
                Join(archiveByDate[flushed'][2], BLANK2) \o
                  (IF Len(archive[d]) > 0 THEN BLANK2 \o archive[d] ELSE <<>>)
         /\ archive'[d] # archive[d] =>
              (pc = "flush" /\ flushed' = flushed + 1 /\ archiveByDate[flushed'][1] = d)]_vars

\* C3 witness: a run has flushed a bucket onto an archive file that an
\* earlier run had written.
C3_Witness ==
  \E d \in ValidDateSet :
    /\ archiveBefore[d] # NoFile
    /\ archive[d] # archiveBefore[d]

\* the calendar day of a clock reading or of a parsed date
DayOf(t) == t \div TicksPerDay

\* the cutoff day of the current run: the day of its start minus the retention
CutoffDay == DayOf(startNow) - retentionDays

HeadingDate(i) == parseDateFromHeading(sections[i].heading)

\* C4: the cutoff has whole-day granularity: a section dated on the cutoff day
\* (the day of the run minus the retention days) is kept whatever the time of
\* day of the run, and a dated section is expired only if its day is before
\* the cutoff day.
C4_CutoffDayKept ==
  Started =>
    \A i \in 1..Len(sections) :
      (HeadingDate(i) # NoDate /\ DayOf(HeadingDate(i)) >= CutoffDay) =>
        /\ \E k \in 1..Len(keep) : keep[k] = sections[i].content
        /\ \A k \in 1..Len(archiveByDate) : archiveByDate[k][1] # IsoDate(HeadingDate(i))

\* nothing the current run read is expired: no dated section is before the
\* cutoff of the run
NoneExpired ==
  \A i \in 1..Len(sections) :
    HeadingDate(i) = NoDate \/ HeadingDate(i) >= startNow - retentionDays * TicksPerDay

\* C5: a run in which no section is expired writes neither the live log nor
\* any archive log file; the live log and the archive files are as the run
\* found them.
C5_NothingExpiredNoWrite ==
  (Started /\ NoneExpired) =>
    /\ log = logBefore
    /\ archive = archiveBefore
    /\ \A k \in 1..Len(writes) : writes[k].kind \notin {"log", "bucket"}

\* C5 witness: a finished run over a log with dated sections, none expired.
C5_Witness ==
  /\ pc = "done"
  /\ NoneExpired
  /\ \E i \in 1..Len(sections) : HeadingDate(i) # NoDate

\* the text of the original log up to and including its first '---' line,
\* empty if it has none
OrigHeader ==
  IF origLog = NoFile THEN <<>>
  ELSE LET lines == Split(origLog)
           seps == {k \in 1..Len(lines) : Trim(lines[k]) = <<"-", "-", "-">>}
       IN IF seps = {} THEN <<>>
          ELSE LET first == CHOOSE k \in seps : \A j \in seps : k <= j
               IN Join(SubSeq(lines, 1, first), <<NL>>)

\* C6: once a run has rewritten the live log, the log is the header of the
\* original log, unchanged, then two newlines, the kept sections joined by two
\* newlines and one newline, or the header and one newline when nothing is
\* kept; in every run.
C6_RewrittenForm ==
  LogRewritten =>
    log = IF Len(keep) = 0
          THEN OrigHeader \o <<NL>>
          ELSE OrigHeader \o <<NL, NL>> \o Join(keep, <<NL, NL>>) \o <<NL>>

\* C6 witness: a second rewrite of a log with a header, the first run having
\* rewritten it already.
C6_Witness ==
  /\ runs = 2
  /\ LogRewritten
  /\ logBefore # origLog
  /\ Len(OrigHeader) > 0

\* the lines of the log the current run read that follow its header
ReadBody ==
  IF logBefore = NoFile THEN <<>>
  ELSE LET lines == Split(logBefore)
           seps == {k \in 1..Len(lines) : Trim(lines[k]) = <<"-", "-", "-">>}
       IN IF seps = {} THEN lines
          ELSE SubSeq(lines, (CHOOSE k \in seps : \A j \in seps : k <= j) + 1, Len(lines))

IsHeadingAt(k) ==
  Len(ReadBody[k]) >= 3 /\ SubSeq(ReadBody[k], 1, 3) = <<"#", "#", " ">>

\* the original text of the section whose heading is line k of the body: the
\* heading line and every line up to the next heading, joined by newlines
RawSection(k) ==
  LET later == {j \in (k + 1)..Len(ReadBody) : IsHeadingAt(j)}
      last == IF later = {} THEN Len(ReadBody)
              ELSE (CHOOSE j \in later : \A m \in later : j <= m) - 1
  IN Join(SubSeq(ReadBody, k, last), <<NL>>)

RECURSIVE RawExpired(_, _, _)
\* the original texts (with their two ends trimmed, if trimmed) of the sections
\* from line k on that are dated dateStr and before the cutoff of the run, in
\* their order
RawExpired(k, dateStr, trimmed) ==
  IF k > Len(ReadBody) THEN <<>>
  ELSE LET t == parseDateFromHeading(ReadBody[k])
           mine == /\ IsHeadingAt(k)
                   /\ t # NoDate
                   /\ t < startNow - retentionDays * TicksPerDay
                   /\ IsoDate(t) = dateStr
       IN (IF mine
           THEN <<IF trimmed THEN Trim(RawSection(k)) ELSE RawSection(k)>>
           ELSE <<>>)
            \o RawExpired(k + 1, dateStr, trimmed)

\* C7 as claimed: the entries of every bucket are the original texts of the
\* expired sections of its date, byte for byte.
C7_NoByteLost ==
  Started =>
    \A b \in 1..Len(archiveByDate) :
      archiveByDate[b][2] = RawExpired(1, archiveByDate[b][1], FALSE)

\* C7 as amended: the entries of every bucket are the original texts of the
\* expired sections of its date with the blanks and newlines at their two
\* ends removed and everything between kept, and a flushed bucket's file
\* begins with these entries joined by two newlines.
C7_TrimmedContent ==
  Started =>
    \A b \in 1..Len(archiveByDate) :
      /\ archiveByDate[b][2] = RawExpired(1, archiveByDate[b][1], TRUE)
      /\ b <= flushed =>
           StartsWith(archive[archiveByDate[b][1]],
                      Join(RawExpired(1, archiveByDate[b][1], TRUE), <<NL, NL>>))

\* C7 witness: a flushed bucket holds a section whose original text ended in
\* a blank line.
C7_Witness ==
  /\ flushed > 0
  /\ \E k \in 1..Len(ReadBody) :
       /\ IsHeadingAt(k)
       /\ RawSection(k) # Trim(RawSection(k))
       /\ \E b \in 1..flushed : \E e \in 1..Len(archiveByDate[b][2]) :
            archiveByDate[b][2][e] = Trim(RawSection(k))

\* the current run follows a run that completed, at the same clock reading
\* and so with nothing added to the log or the work units in between
BackToBack == runs >= 2 /\ prev.outcome = "done" /\ prev.startNow = startNow

TwiceAhead(entries, earlier) ==
  Join(entries, <<NL, NL>>) \o <<NL, NL>> \o Join(entries, <<NL, NL>>) \o
    (IF earlier = NoFile \/ Len(earlier) = 0 THEN <<>> ELSE <<NL, NL>> \o earlier)

OnceAhead(entries, earlier) ==
  Join(entries, <<NL, NL>>) \o
    (IF earlier = NoFile \/ Len(earlier) = 0 THEN <<>> ELSE <<NL, NL>> \o earlier)

\* the current run follows a run whose rewrite of the live log failed, and has
\* itself rewritten the log
RerunAfterFailedRewrite == runs >= 2 /\ prev.outcome = "abortedRewrite" /\ LogRewritten

KeptOnly ==
  log = IF Len(keep) = 0 THEN header \o <<NL>>
        ELSE header \o <<NL, NL>> \o Join(keep, <<NL, NL>>) \o <<NL>>

\* C9 as claimed: after the re-run that follows a failed rewrite, the live log
\* holds only the kept sections and every archive file is what one successful
\* run would have written: the entries once, ahead of what the file held
\* before the failed run.
C9_RerunIdempotent ==
  RerunAfterFailedRewrite =>
    /\ KeptOnly
    /\ \A b \in 1..Len(archiveByDate) :
         archive[archiveByDate[b][1]] =
           OnceAhead(archiveByDate[b][2], prev.archive0[archiveByDate[b][1]])

\* C9 as amended: after the re-run that follows a failed rewrite, the live log
\* holds only the kept sections and no section is lost, but the re-run is not
\* idempotent on the archive: every file the failed run had written holds the
\* expired sections of its date twice, the re-run's entries ahead of the
\* failed run's, ahead of what the file held before.
C9_RerunDuplicates ==
  RerunAfterFailedRewrite =>
    /\ KeptOnly
    /\ \A b \in 1..Len(archiveByDate) :
         LET d == archiveByDate[b][1]
         IN IF archiveBefore[d] # prev.archive0[d]
            THEN archive[d] = TwiceAhead(archiveByDate[b][2], prev.archive0[d])
            ELSE archive[d] = OnceAhead(archiveByDate[b][2], prev.archive0[d])

\* C9 witness: the re-run after a failed rewrite is done.
C9_Witness ==
  /\ RerunAfterFailedRewrite
  /\ pc = "done"
  /\ \E d \in ValidDateSet : archiveBefore[d] # prev.archive0[d]

\* the work units of the project at its start, by their status line
SprintUnits == {u \in UnitIds : "_sprint_" \in {u[2][k] : k \in 1..Len(u[2])}
                                /\ u[2][Len(u[2])] = ".md"}
InProgressUnits == {u \in SprintUnits : origUnits[u] = InProgressDoc}
CompletedUnits == {u \in SprintUnits : origUnits[u] \in {CompletedDoc, CompletedLowerDoc}}

\* C10 as claimed: over any sequence of runs an IN_PROGRESS work unit is never
\* swept and a COMPLETED one (any case, trailing blanks) is swept once, never
\* a second time.
C10_SweptOnce ==
  /\ \A u \in InProgressUnits : swept[u] = 0
  /\ \A u \in CompletedUnits : swept[u] <= 1

\* C10 as amended: an IN_PROGRESS work unit is never swept.  A COMPLETED one
\* (any case, trailing blanks) is swept once by the first run whose sweep
\* reaches it, and never again once its original has been deleted; as long as
\* the delete fails the original stays and every later run sweeps it again,
\* so it is swept at most once more than its delete has failed, and exactly
\* once by the runs of a project in which no file operation ever failed.
C10_SweptOncePerDelete ==
  /\ \A u \in InProgressUnits : swept[u] = 0 /\ units[u] = origUnits[u]
  /\ \A u \in CompletedUnits :
       /\ swept[u] <= 1 + delFail[u]
       /\ units[u] = NoFile => swept[u] = 1 + delFail[u]
       /\ units[u] # NoFile => swept[u] = delFail[u]
       /\ (pc = "done" /\ sprintsEnabled /\ faults = 0) => swept[u] = 1

\* C10 witness: after two runs a COMPLETED unit in lower case with trailing
\* blanks has been swept once and an IN_PROGRESS unit is still in place.
C10_Witness ==
  /\ runs = 2 /\ pc = "done" /\ sprintsEnabled /\ prev.outcome = "done"
  /\ \E u \in CompletedUnits :
       origUnits[u] = CompletedLowerDoc /\ swept[u] = 1 /\ units[u] = NoFile
  /\ \E u \in InProgressUnits : units[u] = InProgressDoc

\* C11: when the delete of a swept original fails (the failure is warned
\* about, which delFail records), the archive copy written just before holds
\* the full content of the original, the original is still in place and
\* unchanged, the file is counted as archived, and the sweep goes on with the
\* files and projects still to visit.
C11_DeleteFailureKeepsCopy ==
  [][\A u \in UnitIds :
       delFail'[u] > delFail[u] =>
         /\ units[u] # NoFile
         /\ units'[u] = units[u]
         /\ unitArchive'[<<IsoDate(now), u>>] = units[u]
         /\ sprintArchived' = sprintArchived + 1
         /\ fileTodo' = fileTodo /\ projTodo' = projTodo
         /\ pc' = (IF Len(fileTodo) = 0 THEN "project" ELSE "file")]_vars

\* C11 witness: the delete of a swept unit of the first project failed, its
\* copy and its original both hold the content, and the run went on to sweep
\* a unit of the second project.
C11_Witness ==
  /\ pc = "done"
  /\ \E u \in delFailRun : \E v \in sweptRun \ delFailRun :
       /\ u[1] = "alpha" /\ v[1] = "beta"
       /\ units[u] # NoFile
       /\ unitArchive[<<IsoDate(startNow), u>>] = units[u]
       /\ units[v] = NoFile

\* a work-unit document marked COMPLETED
MarkedCompleted(doc) == doc \in {CompletedDoc, CompletedLowerDoc}

\* C12: a failed read of one work-unit file or a failed listing of one project
\* directory is caught (the run still completes) and the sweep goes on: when
\* the run is done, every completed work unit still in place whose own read
\* did not fail and whose project's listing did not fail has been archived by
\* this run, its copy holding its content.
C12_SweepGoesOn ==
  (pc = "done" /\ sprintsEnabled /\ <<"tree">> \notin sweepFailRun) =>
    \A u \in SprintUnits :
      (/\ units[u] # NoFile
       /\ MarkedCompleted(units[u])
       /\ <<"project", u[1]>> \notin sweepFailRun
       /\ <<"file", u>> \notin sweepFailRun) =>
        /\ u \in sweptRun
        /\ unitArchive[<<IsoDate(startNow), u>>] = units[u]

\* C12 witness: the listing of the first project failed, or the read of its
\* completed work unit, and the run is done with the completed work unit of
\* the second project archived and deleted.
C12_Witness ==
  /\ pc = "done"
  /\ LET a == <<"alpha", SprintName>>
         b == <<"beta", SprintName>>
     IN /\ (<<"project", "alpha">> \in sweepFailRun \/ <<"file", a>> \in sweepFailRun)
        /\ MarkedCompleted(units[a])
        /\ b \in sweptRun
        /\ units[b] = NoFile
        /\ MarkedCompleted(unitArchive[<<IsoDate(startNow), b>>])

\* the value a policy field takes by the policy: its own when it is valid,
\* its default otherwise
FieldOrDefault(valid, own, default) == IF valid THEN own ELSE default

\* C13: with a policy file that is a JSON object every field is defaulted on
\* its own: log_retention_days is the file's number if it is in 1..365 and 14
\* otherwise, archive_completed_sprints is the file's boolean and true when it
\* is missing or no boolean, warn_tier1_tokens and warn_log_lines are 4000
\* and 500 when missing; so a run under a policy file without
\* archive_completed_sprints has the sweep enabled.
C13_FieldsDefaultIndependently ==
  (Started /\ config.kind = "object") =>
    LET c == loadConfig(config).cfg
        d == config.obj.log_retention_days
        f == config.obj.archive_completed_sprints
        wantSweep == FieldOrDefault(f.type = "boolean", f.val = 1, TRUE)
    IN /\ c.log_retention_days =
            FieldOrDefault(d.type = "number" /\ d.val >= 1 /\ d.val <= 365
                             /\ ~(d.val = 365 /\ d.half), d.val, 14)
       /\ c.archive_completed_sprints = wantSweep
       /\ c.warn_tier1_tokens = 4000
       /\ c.warn_log_lines = 500
       /\ sprintsEnabled = wantSweep

C15_DryRunChangesNothing ==
  (Started /\ dryRun) =>
    /\ log = logBefore
    /\ archive = archiveBefore
    /\ writes = <<>>
    /\ sweptRun = {}

\* C16: a failed write of a bucket file or of the live log ends the run there
\* with the error: the live log is as the run found it, the failed write
\* leaves no file changed, no work unit has been swept, and nothing happens
\* after it until another run is started (after a failed bucket write the log
\* is not rewritten and the sweep does not run).
C16_WriteFailureAborts ==
  [][/\ (pc \in {"flush", "rewrite"} /\ faults' > faults /\ pc' # "crashed") =>
          /\ pc' = (IF pc = "flush" THEN "abortedFlush" ELSE "abortedRewrite")
          /\ log = logBefore /\ log' = log
          /\ archive' = archive /\ writes' = writes
          /\ sprintArchived = 0 /\ sweptRun = {}
     /\ pc \in {"abortedFlush", "abortedRewrite"} =>
          \/ runs' = runs + 1
          \/ /\ pc' = pc
             /\ log' = log /\ archive' = archive
             /\ units' = units /\ unitArchive' = unitArchive]_vars

\* C16 witness: the write of the second bucket failed after the first was
\* written; the run ended with the log as it was and a completed work unit
\* not swept although the sweep is enabled.
C16_Witness ==
  /\ pc = "abortedFlush"
  /\ flushed = 1 /\ Len(archiveByDate) = 2
  /\ log = logBefore
  /\ sprintsEnabled
  /\ \E u \in SprintUnits : units[u] # NoFile /\ MarkedCompleted(units[u]) /\ swept[u] = 0

\* the names a path goes through, in order ('' and '.' say nothing; the paths
\* this is used on hold no '..')
Names(path) ==
  LET segs == Segments(path)
      named == {k \in 1..Len(segs) : segs[k] # <<>> /\ segs[k] # <<".">>}
      Nth(n) == CHOOSE k \in named : Cardinality({j \in named : j <= k}) = n
  IN [n \in 1..Cardinality(named) |-> segs[Nth(n)]]

\* directory inner is the directory outer or lies under it
Under(inner, outer) ==
  Len(outer) <= Len(inner) /\ SubSeq(inner, 1, Len(outer)) = outer

\* C17: resolveMemoryPath returns the resolved path only when that path is the
\* normalized root or lies under it, directory by directory; when it is not,
\* the call throws the escape error.  A sibling of the root whose name begins
\* with the root's name, and a path that leaves the root by '..', are
\* rejected.
C17_Contained ==
  resolveResult # NoCall =>
    LET there == Names(PathResolve(<<projectRoot, relativePath>>))
        root == Names(PathResolve(<<projectRoot>>))
    IN /\ resolveResult.kind = "ok" =>
            /\ resolveResult.path = PathResolve(<<projectRoot, relativePath>>)
            /\ Under(there, root)
       /\ (Len(projectRoot) > 0 /\ Len(relativePath) > 0 /\ ~Under(there, root)) =>
            resolveResult.kind = "escapes"

\* C17 witness: with the root /a, the relative path ../a2 names the sibling
\* /a2, which begins with the root's name, and the call threw the escape
\* error.
C17_Witness ==
  /\ projectRoot = <<"/", "a">>
  /\ relativePath = <<".", ".", "/", "a", "2">>
  /\ resolveResult = [kind |-> "escapes"]

\* C18: safeWrite refuses whenever what is at the target path is a symbolic
\* link, whether the link points to a file or to nothing: the call throws
\* its refusal, no temp file is ever created and the link stays as it was.
C18_RefusesAnySymlink ==
  (target0.kind = "symlink" /\ wpc # "start" /\ failedAt # "ensureDir") =>
    /\ wpc = "refused"
    /\ tmpFile = NoFile
    /\ target = target0

\* C19: safeWrite is atomic on its target.  At every point of a call, also
\* when it is killed or its write or rename fails, the target is what it was
\* or a regular file with the complete new content; after a return the
\* target holds the new content and no temp file is left; when the call throws the target is what it was, and
\* the temp file is gone unless deleting it failed.
C19_AtomicWrite ==
  wpc # "idle" =>
    /\ target = target0 \/ target = [kind |-> "file", data |-> writeContent]
    /\ wpc = "returned" =>
         /\ target = [kind |-> "file", data |-> writeContent]
         /\ tmpFile = <<"<absent>">>
    /\ wpc \in {"thrown", "refused"} =>
         /\ target = target0
         /\ tmpFile = <<"<absent>">> \/ unlinkFailed

\* C19 witness: the write of the temp file failed half way over an existing
\* file; the cleanup found the partial temp file and deleted it, and the call
\* threw with the target as it was.
C19_Witness ==
  /\ wpc = "thrown"
  /\ failedAt = "write"
  /\ hadTmp /\ ~unlinkFailed
  /\ tmpFile = <<"<absent>">>
  /\ target0.kind = "file" /\ target0.data # writeContent
  /\ target = target0

\* a directory holds the version-control marker, or the manifest marker; a
\* marker whose check fails counts as absent
HoldsGit(dir) == dir.git \in {"dir", "file"}
HoldsManifest(dir) == dir.pkg = "file"

\* the levels findProjectRoot looks at: the start directory and its parents,
\* five levels in all, fewer if the filesystem root comes first
LevelsSeen == 1..(IF Len(chain) < 5 THEN Len(chain) ELSE 5)

AfterCall(k) ==
  IF k < Len(callLog) THEN callLog[k + 1].before
  ELSE IF util = "ensureDir" THEN dirSet ELSE fileText

\* the lines of a file; a file that is not there has none
LinesOfFile(file) == IF file = NoFile THEN <<>> ELSE Split(file)

\* how many lines of the file equal the text after trimming
CountLine(file, text) ==
  Cardinality({k \in 1..Len(LinesOfFile(file)) : Trim(LinesOfFile(file)[k]) = text})

\* every call of ensureLineInFile so far did what C21 says, and the file is
\* as C21 says once a call has returned
EnsuredOnce ==
  LET text == Trim(callLog[1].arg)
      first == callLog[1].before
      returned == {k \in 1..Len(callLog) : callLog[k].result # "throws"}
  IN /\ \A k \in returned :
          IF CountLine(callLog[k].before, text) > 0
          THEN callLog[k].result = "false" /\ AfterCall(k) = callLog[k].before
          ELSE callLog[k].result = "true" /\ AfterCall(k) # NoFile
     /\ returned # {} =>
          /\ CountLine(fileText, text) = 1
          /\ fileText # NoFile => StartsWith(fileText, ReadOrEmpty(first))
          /\ \A k \in returned : \A j \in returned : j > k => callLog[j].result = "false"

\* the file did not hold the line more than once before the first call
EnsureRun ==
  /\ util = "ensureLineInFile"
  /\ callLog # <<>>
  /\ CountLine(callLog[1].before, Trim(callLog[1].arg)) <= 1

C22_RefusesOutsideRoot ==
  util = "ensureDir" =>
    \A k \in 1..Len(callLog) :
      LET c == callLog[k]
          outside == /\ c.root # <<>>
                     /\ ~Under(Names(PathResolve(<<c.arg>>)), Names(PathResolve(<<c.root>>)))
      IN c.arg # <<>> =>
           IF outside
           THEN c.result = "escapes project root" /\ AfterCall(k) = c.before
           ELSE c.result = "returned" => PathResolve(<<c.arg>>) \in AfterCall(k)

\* the header of a log: its lines up to the first one that is '---' once
\* trimmed, 0 lines when there is none
HeaderLines(text) ==
  LET seps == {k \in 1..LineCount(text) : Trim(Split(text)[k]) = SEPARATOR}
  IN IF seps = {} THEN 0 ELSE CHOOSE k \in seps : \A j \in seps : k <= j

\* C23: a call of safeAppend on a file that is not there throws and creates
\* nothing.  On a file with a separator line it leaves the header, then a
\* blank line, the trimmed new content, a blank line and the earlier body
\* from its first non-blank character on, unchanged; on a file with no
\* separator line it leaves the trimmed new content, a blank line and the
\* whole earlier text.  After two appends to a file that had a header from
\* the start the later content stands right after the header and the earlier
\* one right after it.
C23_InsertsAfterHeader ==
  util = "safeAppend" =>
    \A k \in 1..Len(callLog) :
      LET c == callLog[k]
          old == c.before
          h == HeaderLines(old)
          hdr == Join(SubSeq(Split(old), 1, h), <<NL>>)
          body == Join(SubSeq(Split(old), h + 1, LineCount(old)), <<NL>>)
      IN /\ old = NoFile => c.result = "does not exist" /\ AfterCall(k) = NoFile
         /\ (old # NoFile /\ c.result = "returned") =>
              /\ h > 0 => AfterCall(k) =
                            hdr \o BLANK2 \o Trim(c.arg) \o BLANK2 \o TrimStart(body)
              /\ h = 0 => AfterCall(k) = Trim(c.arg) \o BLANK2 \o old
              /\ (/\ HeaderLines(callLog[1].before) > 0
                  /\ k > 1
                  /\ callLog[k - 1].result = "returned") =>
                   StartsWith(AfterCall(k),
                              hdr \o BLANK2 \o Trim(c.arg) \o BLANK2 \o
                                Trim(callLog[k - 1].arg) \o BLANK2)

\* C23 witness: two appends to a log with a header, a blank line and one
\* entry; the entry of the second call stands right after the header, ahead
\* of the entry of the first, and the old entry comes last.
C23_Witness ==
  /\ util = "safeAppend"
  /\ Len(callLog) = 2
  /\ callLog[1].before = Join(<<SEPARATOR, <<>>, HeadingLine(<<"x">>)>>, <<NL>>)
  /\ callLog[1].arg = HeadingLine(<<"n">>)
  /\ callLog[1].result = "returned"
  /\ callLog[2].arg # HeadingLine(<<"n">>)
  /\ callLog[2].result = "returned"
  /\ fileText = SEPARATOR \o BLANK2 \o Trim(callLog[2].arg) \o BLANK2 \o
                HeadingLine(<<"n">>) \o BLANK2 \o HeadingLine(<<"x">>)

\* the line is '## Status: COMPLETED' or '## Status: ARCHIVED', in any case
IsMarkerLine(line) ==
  /\ Len(line) = 6
  /\ SubSeq(line, 1, 3) = <<"#", "#", SP>>
  /\ line[4] \in {"Status:", "status:", "STATUS:"}
  /\ line[5] = SP
  /\ line[6] \in {"COMPLETED", "Completed", "completed", "ARCHIVED", "Archived", "archived"}

\* some line of the text, trimmed, is a marker line
HasMarkerLine(text) == \E k \in 1..LineCount(text) : IsMarkerLine(Trim(Split(text)[k]))

\* C24: a work unit is swept as completed only if one of its lines, trimmed,
\* is '## Status: COMPLETED' or '## Status: ARCHIVED' in any case, and a
\* sweep that went through without a failure has swept every work unit that
\* holds such a line; a marker split across two lines, or with other text on
\* its line, does not make the unit completed.
C24_CompletedIffMarkerLine ==
  \A u \in SprintUnits :
    origUnits[u] # NoFile =>
      /\ swept[u] > 0 => HasMarkerLine(origUnits[u])
      /\ (runs >= 1 /\ pc = "done" /\ sprintsEnabled /\ faults = 0 /\ HasMarkerLine(origUnits[u]))
           => swept[u] > 0

\* the heading holds a calendar date right after its '## ' prefix
DatedHeading(heading) ==
  /\ Len(heading) >= 4
  /\ SubSeq(heading, 1, 3) = <<"#", "#", SP>>
  /\ heading[4] \in ValidDateSet

\* the contents of the sections the run read whose heading holds no date
UndatedContents ==
  LET Undated(section) == ~DatedHeading(section.heading)
      undated == SelectSeq(sections, Undated)
  IN [k \in 1..Len(undated) |-> undated[k].content]

HeadingsOf(lines) ==
  {k \in 1..Len(lines) : Len(lines[k]) >= 3 /\ SubSeq(lines[k], 1, 3) = <<"#", "#", SP>>}

\* the lines from position k up to the line before the next of the positions
UpToNext(lines, positions, k) ==
  LET later == {j \in positions : j > k}
      last == IF later = {} THEN Len(lines)
              ELSE (CHOOSE j \in later : \A m \in later : j <= m) - 1
  IN Join(SubSeq(lines, k, last), <<NL>>)

NoSeparatorRead ==
  /\ Started
  /\ logBefore # NoFile
  /\ \A k \in 1..LineCount(logBefore) : Trim(Split(logBefore)[k]) # SEPARATOR

\* C26: when the log a run read has no '---' line, the header is empty and
\* the sections are, heading line by heading line, the text from that heading
\* up to the next one, trimmed: the lines ahead of the first heading are in no
\* section and not in the header, and a log without a heading has no section.
C26_NoSeparatorNoHeader ==
  NoSeparatorRead =>
    LET lines == Split(logBefore)
        heads == HeadingsOf(lines)
    IN /\ header = <<>>
       /\ Len(sections) = Cardinality(heads)
       /\ \A n \in 1..Len(sections) :
            LET k == CHOOSE k \in heads : Cardinality({j \in heads : j <= k}) = n
            IN /\ sections[n].heading = lines[k]
               /\ sections[n].content = Trim(UpToNext(lines, heads, k))
       /\ heads = {} => sections = <<>>

\* C26 witness: the run read a log of a line of text, a dated heading and a
\* line of text, without separator; it has an empty header and one section,
\* which begins at the heading.
C26_Witness ==
  /\ NoSeparatorRead
  /\ logBefore = Join(<< <<"x">>, HeadingLine(<<"2020-01-01">>), <<"x">> >>, <<NL>>)
  /\ header = <<>>
  /\ Len(sections) = 1
  /\ sections[1].content = Join(<<HeadingLine(<<"2020-01-01">>), <<"x">>>>, <<NL>>)

\* the number of lines of a file that are not blank
NonBlankLines(file) ==
  IF file = NoFile THEN 0
  ELSE Cardinality({k \in 1..LineCount(file) : Trim(Split(file)[k]) # <<>>})

RECURSIVE NonBlankAdded(_)
\* the number of non-blank lines the current run added to the archive files
\* of the first n dates
NonBlankAdded(n) ==
  IF n = 0 THEN 0
  ELSE NonBlankLines(archive[ValidDates[n]]) - NonBlankLines(archiveBefore[ValidDates[n]])
         + NonBlankAdded(n - 1)

\* the lines of the log the run read that stand after the separator line and
\* ahead of the first heading; none when the log has no separator line
Preamble ==
  LET lines == Split(logBefore)
      seps == {k \in 1..Len(lines) : Trim(lines[k]) = SEPARATOR}
      sep == IF seps = {} THEN 0 ELSE CHOOSE k \in seps : \A j \in seps : k <= j
      heads == {k \in HeadingsOf(lines) : k > sep}
      first == IF heads = {} THEN Len(lines) + 1 ELSE CHOOSE k \in heads : \A j \in heads : k <= j
  IN IF sep = 0 THEN <<>> ELSE SubSeq(lines, sep + 1, first - 1)

\* C29: once a run has rewritten a log that has a separator line, the lines
\* that stood between the separator and the first heading are nowhere: the
\* first non-blank line after the header of the new log, if any, is the
\* heading of a section (without its blank when nothing follows it on the
\* line), every archive file begins with a heading, and the non-blank
\* lines of the new log and those the run added to the archive files are, in
\* number, the non-blank lines of the old log without those lines.
C29_PreambleDropped ==
  (LogRewritten /\ Len(header) > 0) =>
    LET after == TrimStart(SubSeq(log, Len(header) + 1, Len(log)))
    IN /\ StartsWith(log, header)
       /\ after = <<>> \/ StartsWith(after, <<"#", "#">>)
       /\ \A d \in ValidDateSet :
            archive[d] # NoFile => StartsWith(archive[d], <<"#", "#">>)
       /\ NonBlankLines(log) + NonBlankAdded(Len(ValidDates))
            = NonBlankLines(logBefore) - NonBlankLines(Join(Preamble, <<NL>>))

\* C29 witness: the run read a separator, a line of text and a heading dated
\* 2020-01-01, archived the section and rewrote the log, which is now the
\* separator alone; the line of text is in neither file.
C29_Witness ==
  /\ LogRewritten
  /\ logBefore = Join(<<SEPARATOR, <<"x">>, HeadingLine(<<"2020-01-01">>)>>, <<NL>>)
  /\ log = SEPARATOR \o <<NL>>
  /\ archive["2020-01-01"] = HeadingLine(<<"2020-01-01">>)

\* C27: at every step of a run, and after a stop or a failed write, the
\* content of each work unit marked completed stands at its original path or
\* at an archive path of the unit: the original is gone only where a copy was
\* written.  A unit that is not marked completed stays where it is.
C27_CopyBeforeDelete ==
  \A u \in UnitIds :
    origUnits[u] # NoFile =>
      /\ \/ units[u] = origUnits[u]
         \/ /\ u \in SprintUnits
            /\ MarkedCompleted(origUnits[u])
            /\ \E d \in ValidDateSet : unitArchive[<<d, u>>] = origUnits[u]
      /\ units[u] \in {origUnits[u], NoFile}

\* C27 witness: the run stopped between the write of the copy and the delete
\* of the original; the content is at both paths.
C27_Witness ==
  /\ pc = "crashed"
  /\ curUnit # NoUnit
  /\ units[curUnit] = origUnits[curUnit]
  /\ unitArchive[<<IsoDate(now), curUnit>>] = origUnits[curUnit]

\* C30: the safeWrite of the sweep leaves at the archive destination exactly
\* the content read from the work unit, whatever the destination held: an
\* earlier copy under the same day, project and file name is replaced, and
\* nothing of it is kept.
C30_CopyReplaced ==
  pc = "unlink" => unitArchive[<<IsoDate(now), curUnit>>] = units[curUnit]

\* C30 witness: a unit swept by the run before, written again by the user
\* with another content and swept again on the same day: the destination held
\* the first copy when the second was written.
C30_Witness ==
  /\ pc = "unlink"
  /\ runs = 2
  /\ swept[curUnit] = 1
  /\ prev.outcome = "done"
  /\ IsoDate(prev.startNow) = IsoDate(now)
  /\ units[curUnit] # origUnits[curUnit]
  /\ origUnits[curUnit] # NoFile

\* the sections of a log as the statement reads them: after the first '---'
\* line, if there is one, from each heading line up to the next, trimmed,
\* each with the date its heading holds, if any
SectionsOf(file) ==
  IF file = NoFile THEN {}
  ELSE LET all == Split(file)
           seps == {k \in 1..Len(all) : Trim(all[k]) = <<"-", "-", "-">>}
           lines == IF seps = {} THEN all
                    ELSE SubSeq(all, (CHOOSE k \in seps : \A j \in seps : k <= j) + 1, Len(all))
           heads == HeadingsOf(lines)
       IN { [text |-> Trim(UpToNext(lines, heads, k)),
             dated |-> DatedHeading(lines[k]),
             date |-> IF DatedHeading(lines[k]) THEN lines[k][4] ELSE ""] : k \in heads }

InArchiveOf(section) ==
  /\ section.dated
  /\ archive[section.date] # NoFile
  /\ Occurs(section.text, archive[section.date])

\* C28: with two archive runs interleaved between their file operations, each
\* section of the log the project started with stands, in every state, in
\* the live log or in the archive file of its date.
C28_RaceLosesNoSection ==
  \A section \in SectionsOf(origLog) : InLiveLog(section.text) \/ InArchiveOf(section)

\* C28, for the sections that are more than a bare '## ' heading: each of
\* them stands, in every state, in the live log or in the archive file of
\* its date.
C28_TitledSectionsKept ==
  \A section \in SectionsOf(origLog) :
    section.text # <<"#", "#">> => (InLiveLog(section.text) \/ InArchiveOf(section))

\* C28 witness: the run in hand found no archive file for the date of its
\* bucket; the other run has since written that file and rewritten the log,
\* and the run in hand is about to write its bucket over the file.
C28_Witness ==
  /\ runs = 2
  /\ pc = "flushWrite"
  /\ bucketRead = <<>>
  /\ archive[archiveByDate[flushed + 1][1]] # NoFile
  /\ parked.pc = "sweep"
  /\ log # origLog

====
